---------------------------- MODULE Spec2Model ----------------------------
(***************************************************************************)
(* Model of the API test tool: the request builder and test runner         *)
(* (utils/testRunner: buildBody, buildHeaders, runTestCase) and the batch   *)
(* run of the App component (runAllTestCases).                              *)
(*                                                                         *)
(* JavaScript values are tagged records, so that values of different       *)
(* JavaScript types can be compared: [t |-> "undefined"], [t |-> "null"],   *)
(* numbers [t |-> "number", v |-> n], strings [t |-> "string", v |-> s]     *)
(* with s a sequence of characters, and opaque texts (messages, labels).    *)
(* A character is a one-element token; "sp" is U+0020 and "nbsp" is U+00A0  *)
(* (white space for String.prototype.trim, but not for JSON), "euro" is     *)
(* U+20AC (outside Latin-1) and "surr" is a lone surrogate U+D800.          *)
(***************************************************************************)
EXTENDS Integers, Sequences, FiniteSets, TLC

----------------------------------------------------------------------------
(* JavaScript values *)

UNDEF == [t |-> "undefined"]
NULL == [t |-> "null"]
NAN == [t |-> "NaN"]
Num(n) == [t |-> "number", v |-> n]
Str(s) == [t |-> "string", v |-> s]
Text(s) == [t |-> "text", v |-> s]

IsNullish(v) == v.t \in {"undefined", "null"}

\* ToBoolean of a value.
Truthy(v) ==
    CASE v.t = "undefined" -> FALSE
      [] v.t = "null" -> FALSE
      [] v.t = "NaN" -> FALSE
      [] v.t = "number" -> v.v # 0
      [] v.t = "string" -> v.v # <<>>
      [] v.t = "text" -> v.v # ""
      [] OTHER -> TRUE

----------------------------------------------------------------------------
(* Strings: sequences of characters *)

JsWhiteSpace == {"sp", "nbsp"}
JsonWhiteSpace == {"sp"}

RECURSIVE TrimStart(_)
TrimStart(s) ==
    IF s # <<>> /\ Head(s) \in JsWhiteSpace THEN TrimStart(Tail(s)) ELSE s

RECURSIVE TrimEnd(_)
TrimEnd(s) ==
    IF s # <<>> /\ s[Len(s)] \in JsWhiteSpace
    THEN TrimEnd(SubSeq(s, 1, Len(s) - 1))
    ELSE s

\* String.prototype.trim
Trim(s) == TrimEnd(TrimStart(s))

UpperTable ==
    [c \in {"g", "e", "t", "p", "o", "s", "u"} |->
        CASE c = "g" -> "G" [] c = "e" -> "E" [] c = "t" -> "T"
          [] c = "p" -> "P" [] c = "o" -> "O" [] c = "s" -> "S"
          [] c = "u" -> "U"]

\* String.prototype.toUpperCase
ToUpperCase(s) ==
    [i \in 1..Len(s) |-> IF s[i] \in DOMAIN UpperTable THEN UpperTable[s[i]] ELSE s[i]]

LowerTable ==
    [c \in {"C", "T", "A", "X"} |->
        CASE c = "C" -> "c" [] c = "T" -> "t" [] c = "A" -> "a" [] c = "X" -> "x"]

\* ToLowerCase, had it kept the letter case.
ToLowerCaseKeepsCase(s) == s

\* String.prototype.toLowerCase
ToLowerCase(s) ==
    [i \in 1..Len(s) |-> IF s[i] \in DOMAIN LowerTable THEN LowerTable[s[i]] ELSE s[i]]

\* String.prototype.includes for a single character
Includes(s, c) == \E i \in 1..Len(s) : s[i] = c

\* const ensureTrimmed = value => (typeof value === "string" ? value.trim() : value)
ensureTrimmed(value) ==
    IF value.t = "string" THEN Str(Trim(value.v)) ELSE value

----------------------------------------------------------------------------
(* Number(value) and asNumber *)

DigitVal ==
    [c \in {"0", "1", "2", "3", "4", "5", "6", "7", "8", "9"} |->
        CASE c = "0" -> 0 [] c = "1" -> 1 [] c = "2" -> 2 [] c = "3" -> 3
          [] c = "4" -> 4 [] c = "5" -> 5 [] c = "6" -> 6 [] c = "7" -> 7
          [] c = "8" -> 8 [] c = "9" -> 9]

IsDigit(c) == c \in DOMAIN DigitVal

RECURSIVE DecimalValue(_)
DecimalValue(s) ==
    IF s = <<>> THEN 0
    ELSE 10 * DecimalValue(SubSeq(s, 1, Len(s) - 1)) + DigitVal[s[Len(s)]]

\* Number(value): undefined is NaN, null is 0, a string is trimmed and read
\* as a decimal literal (the empty string is 0), anything else in it is NaN.
ToNumber(value) ==
    CASE value.t = "undefined" -> NAN
      [] value.t = "null" -> Num(0)
      [] value.t = "number" -> value
      [] value.t = "string" ->
            LET s == Trim(value.v) IN
            IF s = <<>> THEN Num(0)
            ELSE IF \A i \in 1..Len(s) : IsDigit(s[i]) THEN Num(DecimalValue(s))
            ELSE NAN
      [] OTHER -> NAN

\* const asNumber = value => { const numeric = Number(value);
\*                             return Number.isFinite(numeric) ? numeric : null; }
asNumber(value) ==
    LET numeric == ToNumber(value) IN
    IF numeric.t = "number" THEN numeric ELSE NULL

----------------------------------------------------------------------------
(* JSON.parse on the characters sp 0-9 [ ] , { } (any other character is    *)
(* a syntax error; an object can only be the empty object, since a member   *)
(* needs a string and the alphabet has no quote).                           *)

ParseFail == [ok |-> FALSE, val |-> NULL, pos |-> 0]
ParseOk(val, pos) == [ok |-> TRUE, val |-> val, pos |-> pos]

RECURSIVE SkipWs(_, _)
SkipWs(s, i) ==
    IF i <= Len(s) /\ s[i] \in JsonWhiteSpace THEN SkipWs(s, i + 1) ELSE i

RECURSIVE DigitsEnd(_, _)
DigitsEnd(s, i) ==
    IF i <= Len(s) /\ IsDigit(s[i]) THEN DigitsEnd(s, i + 1) ELSE i

\* A JSON number made of digits: "0", or a digit 1-9 followed by digits.
ParseNumber(s, i) ==
    IF s[i] = "0" THEN ParseOk(Num(0), i + 1)
    ELSE LET j == DigitsEnd(s, i) IN
         ParseOk(Num(DecimalValue(SubSeq(s, i, j - 1))), j)

RECURSIVE ParseValue(_, _)
RECURSIVE ParseElements(_, _, _)

ParseValue(s, i) ==
    LET j == SkipWs(s, i) IN
    IF j > Len(s) THEN ParseFail
    ELSE IF IsDigit(s[j]) THEN ParseNumber(s, j)
    ELSE IF s[j] = "[" THEN
        LET k == SkipWs(s, j + 1) IN
        IF k <= Len(s) /\ s[k] = "]"
        THEN ParseOk([t |-> "array", v |-> <<>>], k + 1)
        ELSE ParseElements(s, j + 1, <<>>)
    ELSE IF s[j] = "{" THEN
        LET k == SkipWs(s, j + 1) IN
        IF k <= Len(s) /\ s[k] = "}"
        THEN ParseOk([t |-> "object", v |-> <<>>], k + 1)
        ELSE ParseFail
    ELSE ParseFail

ParseElements(s, i, acc) ==
    LET r == ParseValue(s, i) IN
    IF ~r.ok THEN ParseFail
    ELSE LET k == SkipWs(s, r.pos) IN
         IF k > Len(s) THEN ParseFail
         ELSE IF s[k] = "," THEN ParseElements(s, k + 1, Append(acc, r.val))
         ELSE IF s[k] = "]" THEN ParseOk([t |-> "array", v |-> Append(acc, r.val)], k + 1)
         ELSE ParseFail

\* JSON.parse(text): [ok |-> TRUE, val |-> the value], or ok = FALSE when it
\* throws a SyntaxError.
JSONParse(s) ==
    LET r == ParseValue(s, 1) IN
    IF r.ok /\ SkipWs(s, r.pos) > Len(s)
    THEN [ok |-> TRUE, val |-> r.val]
    ELSE [ok |-> FALSE, val |-> NULL]

----------------------------------------------------------------------------
(* encodeURIComponent and btoa *)

\* The UTF-8 percent-encoding of the characters that are not unreserved.
PercentTable ==
    [c \in {"sp", "nbsp", "&", "=", "?", ":", "euro"} |->
        CASE c = "sp" -> <<"%", "2", "0">>
          [] c = "nbsp" -> <<"%", "C", "2", "%", "A", "0">>
          [] c = "&" -> <<"%", "2", "6">>
          [] c = "=" -> <<"%", "3", "D">>
          [] c = "?" -> <<"%", "3", "F">>
          [] c = ":" -> <<"%", "3", "A">>
          [] c = "euro" -> <<"%", "E", "2", "%", "8", "2", "%", "A", "C">>]

RECURSIVE PercentEncode(_)
PercentEncode(s) ==
    IF s = <<>> THEN <<>>
    ELSE (IF Head(s) \in DOMAIN PercentTable THEN PercentTable[Head(s)] ELSE <<Head(s)>>)
         \o PercentEncode(Tail(s))

\* encodeURIComponent(s): throws a URIError on a lone surrogate.
encodeURIComponent(s) ==
    IF Includes(s, "surr")
    THEN [ok |-> FALSE, val |-> <<>>]
    ELSE [ok |-> TRUE, val |-> PercentEncode(s)]

\* Code units of the characters credentials are made of.
CharCode ==
    [c \in {"a", "b", "u", "p", ":", "sp", "nbsp", "euro", "surr"} |->
        CASE c = "a" -> 97 [] c = "b" -> 98 [] c = "u" -> 117 [] c = "p" -> 112
          [] c = ":" -> 58 [] c = "sp" -> 32 [] c = "nbsp" -> 160
          [] c = "euro" -> 8364 [] c = "surr" -> 55296]

Base64Alphabet ==
    <<"A", "B", "C", "D", "E", "F", "G", "H", "I", "J", "K", "L", "M", "N", "O", "P",
      "Q", "R", "S", "T", "U", "V", "W", "X", "Y", "Z", "a", "b", "c", "d", "e", "f",
      "g", "h", "i", "j", "k", "l", "m", "n", "o", "p", "q", "r", "s", "t", "u", "v",
      "w", "x", "y", "z", "0", "1", "2", "3", "4", "5", "6", "7", "8", "9", "+", "/">>

B64(n) == Base64Alphabet[n + 1]

RECURSIVE Base64(_)
Base64(bytes) ==
    IF bytes = <<>> THEN <<>>
    ELSE IF Len(bytes) = 1 THEN
        <<B64(bytes[1] \div 4), B64((bytes[1] % 4) * 16), "=", "=">>
    ELSE IF Len(bytes) = 2 THEN
        <<B64(bytes[1] \div 4), B64((bytes[1] % 4) * 16 + bytes[2] \div 16),
          B64((bytes[2] % 16) * 4), "=">>
    ELSE
        <<B64(bytes[1] \div 4), B64((bytes[1] % 4) * 16 + bytes[2] \div 16),
          B64((bytes[2] % 16) * 4 + bytes[3] \div 64), B64(bytes[3] % 64)>>
        \o Base64(SubSeq(bytes, 4, Len(bytes)))

\* btoa(s): throws InvalidCharacterError on a character outside Latin-1.
btoa(s) ==
    IF \E i \in 1..Len(s) : CharCode[s[i]] > 255
    THEN [ok |-> FALSE, val |-> <<>>]
    ELSE [ok |-> TRUE, val |-> Base64([i \in 1..Len(s) |-> CharCode[s[i]]])]

----------------------------------------------------------------------------
(* The environment and the state *)

VARIABLES
    hasFormData,    \* typeof FormData !== "undefined" in this environment
    now,            \* the clock read by Date.now() and new Date()
    \* App component
    testCases,      \* the testCases state of App
    isRunning,      \* the isRunning state of App
    phase,          \* position of runAllTestCases: "idle", "loop", "archive"
    batch,          \* the testCases captured by the running runAllTestCases
    results,        \* the results array of the running runAllTestCases
    pending,        \* the HTTP calls of the batch that are in flight
    httpLog,        \* history: the HTTP calls issued and completed, in order
    threwLog,       \* history: indices of the batch whose runTestCase rejected
    reports,        \* history: what the report generators of the batch were given
    lastRunSummary, \* the lastRunSummary state of App
    allurePreview,  \* the allurePreview state of App
    previewNotice,  \* the previewNotice state of App
    loadingWindow,  \* whether runAllTestCases holds a report window it opened
    \* a single call of runTestCase
    rtc,            \* its argument
    rstate,         \* "ready", "pending", "returned", "threw"
    rprep,          \* what its synchronous part produced
    rcalls,         \* number of HTTP calls it issued
    rdone,          \* the completion of its HTTP call
    rout,           \* the Outcome it returned
    \* a call of the report generators
    gcases,         \* the testCases argument
    gresults,       \* the results argument
    gmeta,          \* the meta argument of generateAllureHtml
    gjunit,         \* the document generateJUnitReport returned
    gzip,           \* the archive generateAllureArchive resolved with
    ghtml,          \* the documents generateAllureHtml returned, in call order
    \* the store of the browser and the notifications of it
    localStorage,   \* the item "testCases" of localStorage
    persistDue,     \* whether the effect on [testCases] is due to run
    storedByOthers, \* history: another tab wrote the item since this one last did
    issued,         \* history: the values uuidv4() has returned
    storageQueue,   \* the storage events dispatched to this tab and not yet handled
    storageEvents,  \* history: number of storage events handled, and the last of them
    ignoredClicks,  \* history: number of calls of runAllTestCases that returned at once
    addCalls,       \* history: number of calls of addTestCase
    \* RequestForm
    form,           \* the fields of the form that validateRequest reads
    formErrors,     \* the formErrors state
    sent,           \* history: the requests handleSend issued
    savedCases      \* history: the test cases handed to onSaveTestCase

appVars ==
    <<testCases, isRunning, phase, batch, results, pending, httpLog, threwLog, reports,
      lastRunSummary, allurePreview, previewNotice, loadingWindow>>
runVars == <<rtc, rstate, rprep, rcalls, rdone, rout>>
genVars == <<gcases, gresults, gmeta, gjunit, gzip, ghtml>>
storeVars ==
    <<localStorage, persistDue, storedByOthers, issued, storageQueue, storageEvents,
      ignoredClicks, addCalls>>
formVars == <<form, formErrors, sent, savedCases>>
vars == <<hasFormData, now, appVars, runVars, genVars, storeVars, formVars>>

----------------------------------------------------------------------------
(* Request Builder *)

\* HeaderSet, had a key that is already set kept its value.
HeaderSetKeepsFirst(headers, key, value) ==
    IF \E i \in 1..Len(headers) : headers[i].key = key
    THEN headers
    ELSE Append(headers, [key |-> key, value |-> value])

\* headers[key] = value on an object kept as the sequence of its entries.
HeaderSet(headers, key, value) ==
    IF \E i \in 1..Len(headers) : headers[i].key = key
    THEN [i \in 1..Len(headers) |->
            IF headers[i].key = key THEN [key |-> key, value |-> value] ELSE headers[i]]
    ELSE Append(headers, [key |-> key, value |-> value])

RECURSIVE FromEntries(_)
FromEntries(entries) ==
    IF entries = <<>> THEN <<>>
    ELSE LET rest == FromEntries(SubSeq(entries, 1, Len(entries) - 1))
             last == entries[Len(entries)]
         IN IF last.key = <<>> THEN rest ELSE HeaderSet(rest, last.key, last.value)

\* The string literals of the builder, spelled character by character.
AuthorizationKey == <<"A", "u", "t", "h", "o", "r", "i", "z", "a", "t", "i", "o", "n">>
ContentTypeLower == <<"c", "o", "n", "t", "e", "n", "t", "-", "t", "y", "p", "e">>
BearerPrefix == <<"B", "e", "a", "r", "e", "r", "sp">>
BasicPrefix == <<"B", "a", "s", "i", "c", "sp">>
DefaultApiKeyHeader == <<"x", "-", "a", "p", "i", "-", "k", "e", "y">>
DefaultApiKeyParam == <<"a", "p", "i", "K", "e", "y">>

\* const buildHeaders = (testCase, { isFormData }) => ...
\* [ok |-> FALSE] when btoa throws.
buildHeaders(testCase, isFormData) ==
    LET auth == testCase.auth
        h0 == FromEntries(testCase.headers)
        h1 == IF testCase.authType = "Bearer" /\ auth.token # <<>>
              THEN HeaderSet(h0, AuthorizationKey, BearerPrefix \o auth.token)
              ELSE h0
        basic == testCase.authType = "Basic" /\ auth.username # <<>> /\ auth.password # <<>>
        enc == btoa(auth.username \o <<":">> \o auth.password)
        h2 == IF basic THEN HeaderSet(h1, AuthorizationKey, BasicPrefix \o enc.val) ELSE h1
        headerName == IF Trim(auth.apiKeyName) # <<>> THEN Trim(auth.apiKeyName)
                      ELSE DefaultApiKeyHeader
        h3 == IF testCase.authType = "ApiKey" /\ auth.apiKey # <<>>
                 /\ auth.apiKeyLocation = "header"
              THEN HeaderSet(h2, headerName, auth.apiKey)
              ELSE h2
        h4 == IF isFormData
              THEN SelectSeq(h3, LAMBDA e : ToLowerCase(e.key) # ContentTypeLower)
              ELSE h3
    IN IF basic /\ ~enc.ok
       THEN [ok |-> FALSE, headers |-> <<>>]
       ELSE [ok |-> TRUE, headers |-> h4]

GET == <<"G", "E", "T">>

\* MethodOf, had it compared the method as written.
MethodOfWithoutUpperCase(testCase) ==
    IF Truthy(testCase.method) THEN testCase.method.v ELSE GET

\* (testCase.method || "GET").toUpperCase()
MethodOf(testCase) ==
    ToUpperCase(IF Truthy(testCase.method) THEN testCase.method.v ELSE GET)

NotJsonWarning == Text("Raw body is not valid JSON; sending as text.")

NoBody == [data |-> UNDEF, isFormData |-> FALSE, warning |-> NULL]

NonEmptyKeys(entries) == SelectSeq(entries, LAMBDA e : e.key # <<>>)

\* The raw branch of buildBody.
RawBody(testCase) ==
    LET raw == ensureTrimmed(IF IsNullish(testCase.rawBody) THEN Str(<<>>)
                             ELSE testCase.rawBody)
        parsed == JSONParse(raw.v)
    IN IF ~Truthy(raw) THEN NoBody
       ELSE IF parsed.ok
       THEN [data |-> parsed.val, isFormData |-> FALSE, warning |-> NULL]
       ELSE [data |-> testCase.rawBody, isFormData |-> FALSE, warning |-> NotJsonWarning]

\* The form-data branch of buildBody.
FormDataBody(testCase) ==
    LET entries == NonEmptyKeys(testCase.formData) IN
    IF entries = <<>> THEN NoBody
    ELSE IF hasFormData
    THEN [data |-> [t |-> "formdata", v |-> entries], isFormData |-> TRUE, warning |-> NULL]
    ELSE [data |-> [t |-> "object", v |-> FromEntries(testCase.formData)],
          isFormData |-> FALSE, warning |-> NULL]

\* const buildBody = testCase => ...
buildBody(testCase) ==
    IF MethodOf(testCase) = GET THEN NoBody
    ELSE IF testCase.bodyType = "raw" THEN RawBody(testCase)
    ELSE IF testCase.bodyType = "form-data" THEN FormDataBody(testCase)
    ELSE NoBody

----------------------------------------------------------------------------
(* Test Runner *)

MissingUrlError == Text("Missing URL for test case.")
UriError == Text("URI malformed")
InvalidCharacterError == Text("Invalid character")

NoRequest == [method |-> <<>>, url |-> <<>>, headers |-> <<>>, timeout |-> UNDEF, data |-> UNDEF]

Threw(error) == [threw |-> TRUE, error |-> error, request |-> NoRequest, warning |-> NULL]

\* let finalUrl = ensureTrimmed(testCase.url || "")
TrimmedUrl(testCase) ==
    IF Truthy(testCase.url) THEN Trim(testCase.url.v) ELSE <<>>

UsesQueryKey(testCase) ==
    /\ testCase.authType = "ApiKey"
    /\ testCase.auth.apiKey # <<>>
    /\ testCase.auth.apiKeyLocation = "query"

\* The API-key query parameter: encodeURIComponent(paramName) = encodeURIComponent(apiKey)
QueryParam(testCase) ==
    LET auth == testCase.auth
        paramName == IF Trim(auth.apiKeyName) # <<>> THEN Trim(auth.apiKeyName)
                     ELSE DefaultApiKeyParam
        n == encodeURIComponent(paramName)
        v == encodeURIComponent(auth.apiKey)
    IN [ok |-> n.ok /\ v.ok, val |-> n.val \o <<"=">> \o v.val]

\* FinalUrl, had it always joined the parameter with a question mark.
FinalUrlAlwaysQuestionMark(testCase) ==
    LET url == TrimmedUrl(testCase) IN
    IF UsesQueryKey(testCase)
    THEN url \o <<"?">> \o QueryParam(testCase).val
    ELSE url

FinalUrl(testCase) ==
    LET url == TrimmedUrl(testCase) IN
    IF UsesQueryKey(testCase)
    THEN url \o (IF Includes(url, "?") THEN <<"&">> ELSE <<"?">>) \o QueryParam(testCase).val
    ELSE url

\* TimeoutOf, had it passed the seconds on as they are.
TimeoutOfInSeconds(testCase) ==
    LET timeoutSeconds == asNumber(testCase.maxResponseTime) IN
    IF Truthy(timeoutSeconds) /\ timeoutSeconds.v > 0
    THEN Num(timeoutSeconds.v)
    ELSE UNDEF

\* requestConfig.timeout: timeoutSeconds * 1000 when timeoutSeconds is positive.
TimeoutOf(testCase) ==
    LET timeoutSeconds == asNumber(testCase.maxResponseTime) IN
    IF Truthy(timeoutSeconds) /\ timeoutSeconds.v > 0
    THEN Num(timeoutSeconds.v * 1000)
    ELSE UNDEF

\* runTestCase up to the await of axios(requestConfig): it throws, or it has
\* built the request it issues.
Prepare(testCase) ==
    LET body == buildBody(testCase)
        built == buildHeaders(testCase, body.isFormData)
    IN IF TrimmedUrl(testCase) = <<>> THEN Threw(MissingUrlError)
       ELSE IF UsesQueryKey(testCase) /\ ~QueryParam(testCase).ok THEN Threw(UriError)
       ELSE IF ~built.ok THEN Threw(InvalidCharacterError)
       ELSE [threw |-> FALSE, error |-> NULL,
             request |-> [method |-> MethodOf(testCase),
                          url |-> FinalUrl(testCase),
                          headers |-> built.headers,
                          timeout |-> TimeoutOf(testCase),
                          data |-> body.data],
             warning |-> body.warning]

\* Verdict, had it ignored expectedStatus.
VerdictIgnoresExpected(expectedStatus, status) ==
    status.v >= 200 /\ status.v < 300

\* expectedStatus != null ? response.status === expectedStatus
\*                        : response.status >= 200 && response.status < 300
Verdict(expectedStatus, status) ==
    IF ~IsNullish(expectedStatus) THEN status = expectedStatus
    ELSE status.v >= 200 /\ status.v < 300

\* ResponseOutcome, had a body warning failed the test case.
ResponseOutcomeFailsOnWarning(testCase, warning, response, elapsed, at) ==
    LET expectedStatus == asNumber(testCase.expectedStatus) IN
    [caseId |-> testCase.id,
     caseName |-> testCase.caseName,
     ok |-> Verdict(expectedStatus, response.status) /\ warning = NULL,
     status |-> response.status,
     statusText |-> response.statusText,
     timeMs |-> elapsed,
     expectedStatus |-> expectedStatus,
     warning |-> warning,
     executedAt |-> at,
     error |-> NULL]

\* The Outcome of the try branch of runTestCase.
ResponseOutcome(testCase, warning, response, elapsed, at) ==
    LET expectedStatus == asNumber(testCase.expectedStatus) IN
    [caseId |-> testCase.id,
     caseName |-> testCase.caseName,
     ok |-> Verdict(expectedStatus, response.status),
     status |-> response.status,
     statusText |-> response.statusText,
     timeMs |-> elapsed,
     expectedStatus |-> expectedStatus,
     warning |-> warning,
     executedAt |-> at,
     error |-> NULL]

\* ErrorOutcome, had it ignored the partial response of the error.
ErrorOutcomeWithoutPartial(testCase, warning, error, elapsed, at) ==
    [caseId |-> testCase.id,
     caseName |-> testCase.caseName,
     ok |-> FALSE,
     status |-> UNDEF,
     statusText |-> UNDEF,
     timeMs |-> elapsed,
     expectedStatus |-> asNumber(testCase.expectedStatus),
     warning |-> warning,
     executedAt |-> at,
     error |-> error.message]

\* The Outcome of the catch branch of runTestCase.
ErrorOutcome(testCase, warning, error, elapsed, at) ==
    [caseId |-> testCase.id,
     caseName |-> testCase.caseName,
     ok |-> FALSE,
     status |-> IF error.hasResponse THEN error.response.status ELSE UNDEF,
     statusText |-> IF error.hasResponse THEN error.response.statusText ELSE UNDEF,
     timeMs |-> elapsed,
     expectedStatus |-> asNumber(testCase.expectedStatus),
     warning |-> warning,
     executedAt |-> at,
     error |-> error.message]

\* The Outcome runTestCase returns when its HTTP call completes with `done`.
Settle(testCase, warning, done, elapsed, at) ==
    IF done.kind = "response"
    THEN ResponseOutcome(testCase, warning, done.response, elapsed, at)
    ELSE ErrorOutcome(testCase, warning, done.error, elapsed, at)

----------------------------------------------------------------------------
(* The HTTP client: what a call issued with a request can complete with *)

MaxTicks == 2
TickMs == 500

Durations == {k * TickMs : k \in 0..MaxTicks}

Response(status, statusText) == [status |-> Num(status), statusText |-> Text(statusText)]

NoResponse == Response(0, "")

\* validateStatus: () => true: every status is a response, none is an error.
Responses ==
    {Response(199, ""), Response(200, "OK"), Response(299, ""),
     Response(300, ""), Response(404, "Not Found")}

\* Transport errors: without a response, or carrying a partial response.
TransportErrors ==
    {[message |-> Text("Network Error"), hasResponse |-> FALSE, response |-> NoResponse],
     [message |-> Text("Response failed"), hasResponse |-> TRUE, response |-> Response(200, "OK")],
     [message |-> Text("Response failed"), hasResponse |-> TRUE, response |-> Response(404, "Not Found")]}

TimeoutError ==
    [message |-> Text("timeout exceeded"), hasResponse |-> FALSE, response |-> NoResponse]

\* A call with a timeout completes before the timeout, or fails at it.
Completions(request) ==
    LET inTime == {d \in Durations : request.timeout.t = "number" => d < request.timeout.v}
    IN {[kind |-> "response", response |-> r, error |-> TimeoutError, d |-> d] :
            r \in Responses, d \in inTime}
       \cup {[kind |-> "error", response |-> NoResponse, error |-> e, d |-> d] :
            e \in TransportErrors, d \in inTime}
       \cup {[kind |-> "error", response |-> NoResponse, error |-> TimeoutError, d |-> d] :
            d \in {d \in Durations : request.timeout.t = "number" /\ d = request.timeout.v}}

----------------------------------------------------------------------------
(* Test cases *)

NoAuth ==
    [token |-> <<>>, username |-> <<>>, password |-> <<>>, apiKey |-> <<>>,
     apiKeyLocation |-> "header", apiKeyName |-> <<>>]

POST == <<"p", "o", "s", "t">>

BaseCase ==
    [id |-> "c0", caseName |-> "base", method |-> Str(GET), url |-> Str(<<"u">>),
     headers |-> <<>>, authType |-> "None", auth |-> NoAuth,
     bodyType |-> "raw", rawBody |-> Str(<<"{", "}">>), formData |-> <<>>,
     expectedStatus |-> Num(200), maxResponseTime |-> NULL, lastRun |-> UNDEF]

----------------------------------------------------------------------------
(* A single call of runTestCase, on inputs drawn from bounded sets *)

NoPrep == [threw |-> FALSE, error |-> NULL, request |-> NoRequest, warning |-> NULL]

NoCompletion == [kind |-> "none", response |-> NoResponse, error |-> TimeoutError, d |-> 0]

NoOutcome ==
    [caseId |-> "", caseName |-> "", ok |-> FALSE, status |-> UNDEF, statusText |-> UNDEF,
     timeMs |-> 0, expectedStatus |-> NULL, warning |-> NULL, executedAt |-> 0,
     error |-> NULL]

AppIdle ==
    /\ testCases = <<>>
    /\ isRunning = FALSE
    /\ phase = "idle"
    /\ batch = <<>>
    /\ results = <<>>
    /\ pending = {}
    /\ httpLog = <<>>
    /\ threwLog = {}
    /\ reports = [html |-> NULL, junit |-> NULL, archive |-> "none", archiveOf |-> NULL]
    /\ lastRunSummary = NULL
    /\ allurePreview = NULL
    /\ previewNotice = NULL
    /\ loadingWindow = FALSE

RunnerIdle ==
    /\ rtc = BaseCase
    /\ rstate = "off"
    /\ rprep = NoPrep
    /\ rcalls = 0
    /\ rdone = NoCompletion
    /\ rout = NoOutcome

GenIdle ==
    /\ gcases = <<>>
    /\ gresults = <<>>
    /\ gmeta = [executedAt |-> UNDEF]
    /\ gjunit = NULL
    /\ gzip = NULL
    /\ ghtml = <<>>

\* The fields of RequestForm as useState leaves them.
DefaultForm ==
    [url |-> <<>>, expectedStatus |-> <<"2", "0", "0">>, maxResponseTime |-> <<"5">>,
     caseName |-> <<>>]

StoreIdle ==
    /\ localStorage = NULL
    /\ persistDue = FALSE
    /\ storedByOthers = FALSE
    /\ issued = {}
    /\ storageQueue = <<>>
    /\ storageEvents = [count |-> 0, last |-> NULL]
    /\ ignoredClicks = 0
    /\ addCalls = 0

FormIdle ==
    /\ form = DefaultForm
    /\ formErrors = {}
    /\ sent = <<>>
    /\ savedCases = <<>>

Methods == {UNDEF, Str(<<"g", "e", "t">>), Str(POST)}

Urls == {UNDEF, Str(<<"sp">>), Str(<<"u">>), Str(<<"sp", "u", "?", "z">>)}

Bodies ==
    {[bodyType |-> "raw", rawBody |-> Str(<<"x">>), formData |-> <<>>],
     [bodyType |-> "raw", rawBody |-> Str(<<"1">>), formData |-> <<>>],
     [bodyType |-> "form-data", rawBody |-> Str(<<"x">>),
      formData |-> <<[key |-> <<"k">>, value |-> <<"a">>]>>]}

ExpectedStatuses ==
    {UNDEF, NULL, Num(200), Num(404), Str(<<"2", "0", "0">>), Str(<<"q">>)}

MaxResponseTimes == {NULL, Num(1)}

Auths ==
    {[authType |-> "None", auth |-> NoAuth],
     [authType |-> "Basic", auth |-> [NoAuth EXCEPT !.username = <<"u">>, !.password = <<"p">>]],
     [authType |-> "Basic", auth |-> [NoAuth EXCEPT !.username = <<"u">>, !.password = <<"euro">>]],
     [authType |-> "ApiKey",
      auth |-> [NoAuth EXCEPT !.apiKey = <<"a", "b">>, !.apiKeyLocation = "query"]],
     [authType |-> "ApiKey",
      auth |-> [NoAuth EXCEPT !.apiKey = <<"surr">>, !.apiKeyLocation = "query"]]}

RunnerCases ==
    {[BaseCase EXCEPT !.method = m, !.url = u, !.bodyType = b.bodyType,
                      !.rawBody = b.rawBody, !.formData = b.formData,
                      !.expectedStatus = e, !.maxResponseTime = t,
                      !.authType = a.authType, !.auth = a.auth] :
        m \in Methods, u \in Urls, b \in Bodies, e \in ExpectedStatuses,
        t \in MaxResponseTimes, a \in Auths}

InitRunner ==
    /\ StoreIdle
    /\ FormIdle
    /\ hasFormData \in BOOLEAN
    /\ now = 0
    /\ AppIdle
    /\ GenIdle
    /\ rtc \in RunnerCases
    /\ rstate = "ready"
    /\ rprep = NoPrep
    /\ rcalls = 0
    /\ rdone = NoCompletion
    /\ rout = NoOutcome

\* runTestCase(rtc) is called: it throws, or issues its HTTP call and awaits.
RunnerCall ==
    /\ rstate = "ready"
    /\ rprep' = Prepare(rtc)
    /\ rstate' = IF rprep'.threw THEN "threw" ELSE "pending"
    /\ rcalls' = IF rprep'.threw THEN rcalls ELSE rcalls + 1
    /\ UNCHANGED <<hasFormData, now, appVars, genVars, storeVars, formVars, rtc, rdone, rout>>

\* The HTTP call completes and runTestCase returns its Outcome.
RunnerSettle ==
    /\ rstate = "pending"
    /\ \E done \in Completions(rprep.request) :
        /\ rdone' = done
        /\ now' = now + done.d
        /\ rout' = Settle(rtc, rprep.warning, done, now' - now, now')
    /\ rstate' = "returned"
    /\ UNCHANGED <<hasFormData, appVars, genVars, storeVars, formVars, rtc, rprep, rcalls>>

RunnerNext == RunnerCall \/ RunnerSettle

RunnerSpec == InitRunner /\ [][RunnerNext]_vars

----------------------------------------------------------------------------
(* The request runTestCase builds, on bodies drawn from bounded sets *)

MaxRawLen == 3

RawAlphabet == {"sp", "nbsp", "1", "[", "]", "{", "}", "x"}

RawTexts == UNION {[1..n -> RawAlphabet] : n \in 0..MaxRawLen}

BodyMethods ==
    {UNDEF, Str(<<>>), Str(<<"g", "e", "t">>), Str(GET), Str(<<"G", "e", "t">>), Str(POST)}

FormDatas ==
    {<<>>,
     <<[key |-> <<>>, value |-> <<"a">>]>>,
     <<[key |-> <<"k">>, value |-> <<"a">>]>>,
     <<[key |-> <<"k">>, value |-> <<"a">>], [key |-> <<>>, value |-> <<"b">>],
       [key |-> <<"k">>, value |-> <<"b">>]>>}

BodyCases ==
    {[BaseCase EXCEPT !.method = m, !.bodyType = "raw", !.rawBody = r,
                      !.formData = <<[key |-> <<"k">>, value |-> <<"a">>]>>] :
        m \in BodyMethods, r \in {UNDEF, NULL} \cup {Str(x) : x \in RawTexts}}
    \cup
    {[BaseCase EXCEPT !.method = m, !.bodyType = b, !.rawBody = r, !.formData = f] :
        m \in BodyMethods, b \in {"form-data", "none"},
        r \in {Str(<<"x">>), Str(<<"1">>)}, f \in FormDatas}

InitBody ==
    /\ StoreIdle
    /\ FormIdle
    /\ hasFormData \in BOOLEAN
    /\ now = 0
    /\ AppIdle
    /\ GenIdle
    /\ rtc \in BodyCases
    /\ rstate = "ready"
    /\ rprep = NoPrep
    /\ rcalls = 0
    /\ rdone = NoCompletion
    /\ rout = NoOutcome

BodySpec == InitBody /\ [][RunnerCall]_vars

----------------------------------------------------------------------------
(* The request runTestCase builds, on urls, header lists, authorization    *)
(* settings and timeouts drawn from bounded sets                            *)

ContentTypeKey == <<"C", "o", "n", "t", "e", "n", "t", "-", "T", "y", "p", "e">>

RequestUrls == {Str(<<"u">>), Str(<<"u", "?">>), Str(<<"sp", "u", "?", "z", "sp">>)}

HeaderLists ==
    {<<>>,
     <<[key |-> ContentTypeKey, value |-> <<"a">>]>>,
     <<[key |-> <<"k">>, value |-> <<"a">>], [key |-> <<>>, value |-> <<"b">>],
       [key |-> <<"k">>, value |-> <<"b">>]>>,
     <<[key |-> ContentTypeLower, value |-> <<"a">>],
       [key |-> AuthorizationKey, value |-> <<"x">>],
       [key |-> ContentTypeKey, value |-> <<"b">>]>>}

RequestBodies ==
    {[method |-> Str(GET), bodyType |-> "form-data",
      formData |-> <<[key |-> <<"k">>, value |-> <<"a">>]>>],
     [method |-> Str(POST), bodyType |-> "raw", formData |-> <<>>],
     [method |-> Str(POST), bodyType |-> "form-data",
      formData |-> <<[key |-> <<"k">>, value |-> <<"a">>]>>]}

\* The auth object as the form fills it in; authType tells which of its
\* fields are used.
FilledAuth ==
    [token |-> <<"a", "b">>, username |-> <<"u">>, password |-> <<"p">>,
     apiKey |-> <<"a", "&">>, apiKeyLocation |-> "header", apiKeyName |-> <<>>]

RequestAuths ==
    {[authType |-> t, auth |-> FilledAuth] : t \in {"None", "Bearer", "Basic", "ApiKey"}}
    \cup
    {[authType |-> "Bearer", auth |-> [FilledAuth EXCEPT !.token = <<>>]],
     [authType |-> "Basic", auth |-> [FilledAuth EXCEPT !.username = <<>>]],
     [authType |-> "Basic", auth |-> [FilledAuth EXCEPT !.password = <<>>]]}
    \cup
    {[authType |-> "ApiKey",
      auth |-> [FilledAuth EXCEPT !.apiKey = k, !.apiKeyLocation = l, !.apiKeyName = n]] :
        k \in {<<>>, <<"a", "&">>}, l \in {"header", "query"},
        n \in {<<>>, <<"sp">>, <<"sp", "t", "sp">>, <<"t", "=">>, ContentTypeKey}}

RequestTimes == {UNDEF, NULL, Num(-1), Num(0), Num(1), Num(2)}

RequestCases ==
    {[BaseCase EXCEPT !.url = u, !.headers = h, !.method = b.method,
                      !.bodyType = b.bodyType, !.formData = b.formData,
                      !.authType = a.authType, !.auth = a.auth, !.maxResponseTime = t] :
        u \in RequestUrls, h \in HeaderLists, b \in RequestBodies, a \in RequestAuths,
        t \in RequestTimes}

InitRequest ==
    /\ StoreIdle
    /\ FormIdle
    /\ hasFormData \in BOOLEAN
    /\ now = 0
    /\ AppIdle
    /\ GenIdle
    /\ rtc \in RequestCases
    /\ rstate = "ready"
    /\ rprep = NoPrep
    /\ rcalls = 0
    /\ rdone = NoCompletion
    /\ rout = NoOutcome

RequestSpec == InitRequest /\ [][RunnerCall]_vars

----------------------------------------------------------------------------
(* App: runAllTestCases.  The model follows one batch run of the App: from  *)
(* the click to the end of the finally block.                               *)

MaxCases == 2

\* Saved test cases the collection is drawn from.
Catalog ==
    <<[BaseCase EXCEPT !.id = "c1", !.caseName = "get 200", !.maxResponseTime = Num(1)],
      [BaseCase EXCEPT !.id = "c2", !.caseName = "post text", !.method = Str(POST),
                       !.rawBody = Str(<<"x">>), !.expectedStatus = NULL],
      [BaseCase EXCEPT !.id = "c3", !.caseName = "no url", !.url = Str(<<"sp">>)],
      [BaseCase EXCEPT !.id = "c4", !.caseName = "post form", !.method = Str(POST),
                       !.bodyType = "form-data",
                       !.formData = <<[key |-> <<"k">>, value |-> <<"a">>]>>,
                       !.expectedStatus = UNDEF],
      [BaseCase EXCEPT !.id = "c5", !.caseName = "basic", !.authType = "Basic",
                       !.auth = [NoAuth EXCEPT !.username = <<"u">>, !.password = <<"euro">>]]>>

Init ==
    /\ StoreIdle
    /\ FormIdle
    /\ hasFormData = TRUE
    /\ now = 0
    /\ \E i \in 1..Len(Catalog), n \in 0..MaxCases :
        /\ i + n - 1 <= Len(Catalog)
        /\ testCases = SubSeq(Catalog, i, i + n - 1)
    /\ isRunning = FALSE
    /\ phase = "idle"
    /\ batch = <<>>
    /\ results = <<>>
    /\ pending = {}
    /\ httpLog = <<>>
    /\ threwLog = {}
    /\ reports = [html |-> NULL, junit |-> NULL, archive |-> "none", archiveOf |-> NULL]
    /\ lastRunSummary = NULL
    /\ allurePreview = NULL
    /\ previewNotice = NULL
    /\ loadingWindow = FALSE
    /\ RunnerIdle
    /\ GenIdle

\* FallbackOutcome, had it lost the id of its test case.
FallbackOutcomeWithoutId(testCase, error, at) ==
    [caseId |-> "",
     caseName |-> testCase.caseName,
     ok |-> FALSE,
     status |-> NULL,
     statusText |-> Text("Request Failed"),
     timeMs |-> 0,
     expectedStatus |-> NULL,
     warning |-> NULL,
     executedAt |-> at,
     error |-> IF Truthy(error) THEN error ELSE Text("Unexpected error")]

\* The Outcome pushed by the catch of the loop, when runTestCase rejected.
FallbackOutcome(testCase, error, at) ==
    [caseId |-> testCase.id,
     caseName |-> testCase.caseName,
     ok |-> FALSE,
     status |-> NULL,
     statusText |-> Text("Request Failed"),
     timeMs |-> 0,
     expectedStatus |-> NULL,
     warning |-> NULL,
     executedAt |-> at,
     error |-> IF Truthy(error) THEN error ELSE Text("Unexpected error")]

\* Advance, had the loop no catch of its own: the first rejection ends it.
AdvanceEndsOnRejection(cases, i, res, threw, at) ==
    IF i > Len(cases) THEN [index |-> i, results |-> res, threw |-> threw]
    ELSE IF Prepare(cases[i]).threw
    THEN [index |-> Len(cases) + 1, results |-> res, threw |-> threw \cup {i}]
    ELSE [index |-> i, results |-> res, threw |-> threw]

\* The loop of runAllTestCases from case i on, up to its next await of an
\* HTTP call: a case whose runTestCase rejects gets the fallback Outcome and
\* the loop goes on.  Gives the index the loop stops at (Len(cases) + 1 when
\* it is over), the results so far and the cases that rejected.
RECURSIVE Advance(_, _, _, _, _)
Advance(cases, i, res, threw, at) ==
    IF i > Len(cases) THEN [index |-> i, results |-> res, threw |-> threw]
    ELSE LET prep == Prepare(cases[i]) IN
         IF prep.threw
         THEN Advance(cases, i + 1, Append(res, FallbackOutcome(cases[i], prep.error, at)),
                      threw \cup {i}, at)
         ELSE [index |-> i, results |-> res, threw |-> threw]

\* The first Outcome of the batch for a test case: results.find(res => res.caseId === tc.id)
FindResult(res, id) ==
    LET hits == {i \in 1..Len(res) : res[i].caseId = id} IN
    IF hits = {} THEN NULL
    ELSE res[CHOOSE i \in hits : \A j \in hits : i <= j]

OrNull(v) == IF Truthy(v) THEN v ELSE NULL

\* WithLastRun, had every test case got the summary of the last Outcome.
WithLastRunOfLastOutcome(prev, res) ==
    [k \in 1..Len(prev) |->
        LET match == IF res = <<>> THEN NULL ELSE res[Len(res)] IN
        IF match = NULL THEN prev[k]
        ELSE [prev[k] EXCEPT !.lastRun =
                [ok |-> match.ok, status |-> match.status, statusText |-> match.statusText,
                 timeMs |-> match.timeMs, executedAt |-> match.executedAt,
                 expectedStatus |-> match.expectedStatus,
                 warning |-> OrNull(match.warning), error |-> OrNull(match.error)]]]

\* WithLastRun, had the test cases with no Outcome been left out.
WithLastRunDropsUnmatched(prev, res) ==
    LET kept == SelectSeq(prev, LAMBDA tc : FindResult(res, tc.id) # NULL) IN
    [k \in 1..Len(kept) |->
        LET match == FindResult(res, kept[k].id) IN
        [kept[k] EXCEPT !.lastRun =
                [ok |-> match.ok, status |-> match.status, statusText |-> match.statusText,
                 timeMs |-> match.timeMs, executedAt |-> match.executedAt,
                 expectedStatus |-> match.expectedStatus,
                 warning |-> OrNull(match.warning), error |-> OrNull(match.error)]]]

\* setTestCases(prev => prev.map(tc => ... lastRun ...))
WithLastRun(prev, res) ==
    [k \in 1..Len(prev) |->
        LET match == FindResult(res, prev[k].id) IN
        IF match = NULL THEN prev[k]
        ELSE [prev[k] EXCEPT !.lastRun =
                [ok |-> match.ok, status |-> match.status, statusText |-> match.statusText,
                 timeMs |-> match.timeMs, executedAt |-> match.executedAt,
                 expectedStatus |-> match.expectedStatus,
                 warning |-> OrNull(match.warning), error |-> OrNull(match.error)]]]

PopupBlockedNotice ==
    Text("Your browser blocked the report popup. Use 'Open last report' after enabling pop-ups.")
ArchiveFailedNotice ==
    Text("Allure ZIP could not be generated. Report preview is still available.")

\* AfterLoop, had it set the collection to the snapshot with its lastRun.
AfterLoopSetsSnapshot(cases, res, win, notice, at) ==
    /\ testCases' = WithLastRun(cases, res)
    /\ lastRunSummary' = [executedAt |-> at, results |-> res]
    /\ allurePreview' =
            [html |-> [testCases |-> cases, results |-> res, executedAt |-> at],
             generatedAt |-> at]
    /\ \/ /\ win
          /\ previewNotice' = notice
       \/ /\ ~win
          /\ \E opened \in BOOLEAN :
                previewNotice' = IF opened THEN NULL ELSE PopupBlockedNotice
    /\ reports' = [html |-> [testCases |-> cases, results |-> res, executedAt |-> at],
                   junit |-> [testCases |-> cases, results |-> res],
                   archive |-> "building",
                   archiveOf |-> [testCases |-> cases, results |-> res]]
    /\ phase' = "archive"
    /\ pending' = {}
    /\ persistDue' = TRUE
    /\ UNCHANGED <<localStorage, storedByOthers, issued, storageQueue, storageEvents,
                   ignoredClicks, addCalls>>

\* runAllTestCases after the loop, up to the await of generateAllureArchive;
\* win tells whether it holds the loading window, notice is the previewNotice
\* it finds.  setTestCases gets a new array, so the effect on [testCases]
\* is due after the render.
AfterLoop(cases, res, win, notice, at) ==
    /\ testCases' = WithLastRun(testCases, res)
    /\ lastRunSummary' = [executedAt |-> at, results |-> res]
    /\ allurePreview' =
            [html |-> [testCases |-> cases, results |-> res, executedAt |-> at],
             generatedAt |-> at]
    /\ \/ /\ win
          /\ previewNotice' = notice
       \/ /\ ~win
          /\ \E opened \in BOOLEAN :
                previewNotice' = IF opened THEN NULL ELSE PopupBlockedNotice
    /\ reports' = [html |-> [testCases |-> cases, results |-> res, executedAt |-> at],
                   junit |-> [testCases |-> cases, results |-> res],
                   archive |-> "building",
                   archiveOf |-> [testCases |-> cases, results |-> res]]
    /\ phase' = "archive"
    /\ pending' = {}
    /\ persistDue' = TRUE
    /\ UNCHANGED <<localStorage, storedByOthers, issued, storageQueue, storageEvents,
                   ignoredClicks, addCalls>>

\* Continue, had the loop not awaited runTestCase: the calls of all the cases
\* left are issued at once.
ContinueWithoutAwait(cases, i, res, log, threw, win, notice, at) ==
    /\ results' = res
    /\ threwLog' = threw
    /\ pending' = {[index |-> j, start |-> at, prep |-> Prepare(cases[j])] :
                        j \in {k \in i..Len(cases) : ~Prepare(cases[k]).threw}}
    /\ httpLog' = log \o [k \in 1..(Len(cases) - i + 1) |-> <<"start", i + k - 1>>]
    /\ phase' = "loop"
    /\ previewNotice' = notice
    /\ UNCHANGED <<testCases, lastRunSummary, allurePreview, reports, storeVars>>

\* Continue, had the reports been generated as soon as the results so far
\* were at hand, with HTTP calls of the batch still to come.
ContinueReportsEarly(cases, i, res, log, threw, win, notice, at) ==
    \E adv \in {Advance(cases, i, res, threw, at)} :
    /\ results' = adv.results
    /\ threwLog' = adv.threw
    /\ IF adv.index <= Len(cases)
       THEN /\ pending' = {[index |-> adv.index, start |-> at,
                            prep |-> Prepare(cases[adv.index])]}
            /\ httpLog' = Append(log, <<"start", adv.index>>)
            /\ phase' = "loop"
            /\ previewNotice' = notice
            /\ reports' = [html |-> [testCases |-> cases, results |-> adv.results,
                                     executedAt |-> at],
                           junit |-> [testCases |-> cases, results |-> adv.results],
                           archive |-> "building",
                           archiveOf |-> [testCases |-> cases, results |-> adv.results]]
            /\ UNCHANGED <<testCases, lastRunSummary, allurePreview, storeVars>>
       ELSE /\ httpLog' = log
            /\ AfterLoop(cases, adv.results, win, notice, at)

\* The loop over cases goes on from case i, with the results res, the log of HTTP calls
\* and the set of rejected cases so far.
Continue(cases, i, res, log, threw, win, notice, at) ==
    \E adv \in {Advance(cases, i, res, threw, at)} :
    /\ results' = adv.results
    /\ threwLog' = adv.threw
    /\ IF adv.index <= Len(cases)
       THEN /\ pending' = {[index |-> adv.index, start |-> at,
                            prep |-> Prepare(cases[adv.index])]}
            /\ httpLog' = Append(log, <<"start", adv.index>>)
            /\ phase' = "loop"
            /\ previewNotice' = notice
            /\ UNCHANGED <<testCases, lastRunSummary, allurePreview, reports, storeVars>>
       ELSE /\ httpLog' = log
            /\ AfterLoop(cases, adv.results, win, notice, at)

\* RunAll, had runAllTestCases not looked at isRunning and at the length of
\* the collection.
RunAllWithoutGuard ==
    /\ phase = "idle"
    /\ isRunning' = TRUE
    /\ batch' = testCases
    /\ \E win \in BOOLEAN :
        /\ loadingWindow' = win
        /\ Continue(testCases, 1, <<>>, <<>>, {}, win, NULL, now)
    /\ UNCHANGED <<hasFormData, now, runVars, genVars, formVars>>

\* Run All is clicked: runAllTestCases up to its first await.
RunAll ==
    /\ phase = "idle"
    /\ testCases # <<>>
    /\ ~isRunning
    /\ isRunning' = TRUE
    /\ batch' = testCases
    /\ \E win \in BOOLEAN :
        /\ loadingWindow' = win
        /\ Continue(testCases, 1, <<>>, <<>>, {}, win, NULL, now)
    /\ UNCHANGED <<hasFormData, now, runVars, genVars, formVars>>

\* The HTTP call in flight completes: runTestCase returns its Outcome, the
\* loop pushes it and goes on to its next await.
HttpComplete ==
    /\ phase = "loop"
    /\ \E call \in pending : \E done \in Completions(call.prep.request) :
        /\ now' = now + done.d
        /\ \E outcome \in {Settle(batch[call.index], call.prep.warning, done,
                                  now' - call.start, now')} :
             Continue(batch, call.index + 1, Append(results, outcome),
                      Append(httpLog, <<"end", call.index>>), threwLog, loadingWindow,
                      previewNotice, now')
    /\ UNCHANGED <<hasFormData, isRunning, batch, loadingWindow, runVars, genVars, formVars>>

\* ArchiveDone, had the notice of a failed archive replaced the notice shown.
ArchiveDoneReplacesNotice ==
    /\ phase = "archive"
    /\ \E built \in BOOLEAN :
        /\ reports' = [reports EXCEPT !.archive = IF built THEN "downloaded" ELSE "failed"]
        /\ previewNotice' = IF built THEN previewNotice ELSE ArchiveFailedNotice
    /\ isRunning' = FALSE
    /\ phase' = "done"
    /\ UNCHANGED <<hasFormData, now, testCases, batch, results, pending, httpLog, threwLog,
                   lastRunSummary, allurePreview, loadingWindow, runVars, genVars, storeVars, formVars>>

\* generateAllureArchive settles: the archive is downloaded, or the failure
\* becomes a notice; the finally block ends the run.
ArchiveDone ==
    /\ phase = "archive"
    /\ \E built \in BOOLEAN :
        /\ reports' = [reports EXCEPT !.archive = IF built THEN "downloaded" ELSE "failed"]
        /\ previewNotice' = IF built \/ Truthy(previewNotice) THEN previewNotice
                            ELSE ArchiveFailedNotice
    /\ isRunning' = FALSE
    /\ phase' = "done"
    /\ UNCHANGED <<hasFormData, now, testCases, batch, results, pending, httpLog, threwLog,
                   lastRunSummary, allurePreview, loadingWindow, runVars, genVars, storeVars, formVars>>

Next == RunAll \/ HttpComplete \/ ArchiveDone

Spec == Init /\ [][Next]_vars

----------------------------------------------------------------------------
(* App: runAllTestCases when generateAllureHtml or generateJUnitReport      *)
(* throws.  The exception leaves the try block through its finally.         *)

\* AfterLoopThrows, had setIsRunning(false) not been in a finally block.
AfterLoopThrowsWithoutFinally(cases, res, win, notice, at) ==
    /\ testCases' = WithLastRun(testCases, res)
    /\ lastRunSummary' = [executedAt |-> at, results |-> res]
    /\ \E thrower \in {"html", "junit"} :
        IF thrower = "html"
        THEN /\ allurePreview' = allurePreview
             /\ previewNotice' = notice
             /\ reports' = [html |-> [testCases |-> cases, results |-> res, executedAt |-> at],
                            junit |-> NULL, archive |-> "none", archiveOf |-> NULL]
        ELSE /\ allurePreview' =
                    [html |-> [testCases |-> cases, results |-> res, executedAt |-> at],
                     generatedAt |-> at]
             /\ \/ /\ win
                   /\ previewNotice' = notice
                \/ /\ ~win
                   /\ \E opened \in BOOLEAN :
                        previewNotice' = IF opened THEN NULL ELSE PopupBlockedNotice
             /\ reports' = [html |-> [testCases |-> cases, results |-> res, executedAt |-> at],
                            junit |-> [testCases |-> cases, results |-> res],
                            archive |-> "none", archiveOf |-> NULL]
    /\ isRunning' = TRUE
    /\ phase' = "done"
    /\ pending' = {}
    /\ persistDue' = TRUE
    /\ UNCHANGED <<localStorage, storedByOthers, issued, storageQueue, storageEvents,
                   ignoredClicks, addCalls>>

\* runAllTestCases after the loop when a generator throws: the collection
\* and lastRunSummary are set; generateAllureHtml throws, or the preview is
\* set and shown and generateJUnitReport throws; the finally block ends the
\* run.
AfterLoopThrows(cases, res, win, notice, at) ==
    /\ testCases' = WithLastRun(testCases, res)
    /\ lastRunSummary' = [executedAt |-> at, results |-> res]
    /\ \E thrower \in {"html", "junit"} :
        IF thrower = "html"
        THEN /\ allurePreview' = allurePreview
             /\ previewNotice' = notice
             /\ reports' = [html |-> [testCases |-> cases, results |-> res, executedAt |-> at],
                            junit |-> NULL, archive |-> "none", archiveOf |-> NULL]
        ELSE /\ allurePreview' =
                    [html |-> [testCases |-> cases, results |-> res, executedAt |-> at],
                     generatedAt |-> at]
             /\ \/ /\ win
                   /\ previewNotice' = notice
                \/ /\ ~win
                   /\ \E opened \in BOOLEAN :
                        previewNotice' = IF opened THEN NULL ELSE PopupBlockedNotice
             /\ reports' = [html |-> [testCases |-> cases, results |-> res, executedAt |-> at],
                            junit |-> [testCases |-> cases, results |-> res],
                            archive |-> "none", archiveOf |-> NULL]
    /\ isRunning' = FALSE
    /\ phase' = "done"
    /\ pending' = {}
    /\ persistDue' = TRUE
    /\ UNCHANGED <<localStorage, storedByOthers, issued, storageQueue, storageEvents,
                   ignoredClicks, addCalls>>

\* The loop over cases goes on from case i and ends with no further HTTP
\* call, and a generator throws.
LoopEndsThrowing(cases, i, res, log, threw, win, notice, at) ==
    \E adv \in {Advance(cases, i, res, threw, at)} :
    /\ adv.index > Len(cases)
    /\ results' = adv.results
    /\ threwLog' = adv.threw
    /\ httpLog' = log
    /\ AfterLoopThrows(cases, adv.results, win, notice, at)

\* Run All is clicked, no test case of the batch gets as far as an HTTP
\* call, and a generator throws.
RunAllGeneratorThrows ==
    /\ phase = "idle"
    /\ testCases # <<>>
    /\ ~isRunning
    /\ batch' = testCases
    /\ \E win \in BOOLEAN :
        /\ loadingWindow' = win
        /\ LoopEndsThrowing(testCases, 1, <<>>, <<>>, {}, win, NULL, now)
    /\ UNCHANGED <<hasFormData, now, runVars, genVars, formVars>>

\* The last HTTP call of the batch completes, and a generator throws.
HttpCompleteGeneratorThrows ==
    /\ phase = "loop"
    /\ \E call \in pending : \E done \in Completions(call.prep.request) :
        /\ now' = now + done.d
        /\ \E outcome \in {Settle(batch[call.index], call.prep.warning, done,
                                  now' - call.start, now')} :
             LoopEndsThrowing(batch, call.index + 1, Append(results, outcome),
                              Append(httpLog, <<"end", call.index>>), threwLog,
                              loadingWindow, previewNotice, now')
    /\ UNCHANGED <<hasFormData, batch, loadingWindow, runVars, genVars, formVars>>

LiveNext ==
    \/ RunAll
    \/ HttpComplete
    \/ ArchiveDone
    \/ RunAllGeneratorThrows
    \/ HttpCompleteGeneratorThrows

\* Every HTTP call completes (axios resolves or rejects), and the promise of
\* generateAllureArchive settles.
LiveSpec ==
    /\ Init
    /\ [][LiveNext]_vars
    /\ WF_vars(HttpComplete \/ HttpCompleteGeneratorThrows)
    /\ WF_vars(ArchiveDone)

----------------------------------------------------------------------------
(* App: the collection of test cases and the item "testCases" of the store. *)
(* A text of the store is modelled by what JSON.parse makes of it: no JSON, *)
(* a JSON value that is no array, or an array of objects; the objects are   *)
(* records whose properties left out of the text are Absent.                *)

Absent == [t |-> "absent"]

Item(kind, elems) == [t |-> "item", kind |-> kind, elems |-> elems]

\* JSON.stringify of the value of a property: an undefined property is left
\* out of the text, NaN is written as null.
JsonOf(v) == IF v = UNDEF THEN Absent ELSE IF v = NAN THEN NULL ELSE v

\* The value JSON.parse gives a property: reading one the text has not gives
\* undefined.
ValueOf(j) == IF j = Absent THEN UNDEF ELSE j

StringifyCase(tc) ==
    [tc EXCEPT !.method = JsonOf(@), !.url = JsonOf(@), !.rawBody = JsonOf(@),
               !.expectedStatus = JsonOf(@), !.maxResponseTime = JsonOf(@),
               !.lastRun = IF @ = UNDEF THEN Absent
                           ELSE [@ EXCEPT !.status = JsonOf(@), !.statusText = JsonOf(@),
                                          !.expectedStatus = JsonOf(@),
                                          !.warning = JsonOf(@), !.error = JsonOf(@)]]

ParseCase(j) ==
    [j EXCEPT !.method = ValueOf(@), !.url = ValueOf(@), !.rawBody = ValueOf(@),
              !.expectedStatus = ValueOf(@), !.maxResponseTime = ValueOf(@),
              !.lastRun = IF @ = Absent THEN UNDEF
                          ELSE [@ EXCEPT !.status = ValueOf(@), !.statusText = ValueOf(@),
                                         !.expectedStatus = ValueOf(@),
                                         !.warning = ValueOf(@), !.error = ValueOf(@)]]

\* JSON.stringify(testCases)
stringify(cases) == Item("array", [k \in 1..Len(cases) |-> StringifyCase(cases[k])])

\* JSON.parse(text): it throws, or gives a value that is an array or is not.
parse(text) ==
    [threw |-> text.kind = "none",
     isArray |-> text.kind = "array",
     elems |-> [k \in 1..Len(text.elems) |-> ParseCase(text.elems[k])]]

\* uuidv4() never returns a value it has returned before.
UuidPool == {"u1", "u2", "u3", "u4"}

\* FillIds, had a test case without id been kept as it is.
FillIdsKeepsMissing(list, used) == list

\* list.map(tc => ({ ...tc, id: tc.id || uuidv4() })), used being the values
\* uuidv4() has returned so far.
RECURSIVE FillIds(_, _)
FillIds(list, used) ==
    IF list = <<>> THEN <<>>
    ELSE IF Head(list).id # "" THEN <<Head(list)>> \o FillIds(Tail(list), used)
    ELSE LET id == CHOOSE u \in UuidPool \ used : TRUE
         IN <<[Head(list) EXCEPT !.id = id]>> \o FillIds(Tail(list), used \cup {id})

\* The values uuidv4() returned to FillIds(list, used).
IdsFilled(list, used) ==
    {FillIds(list, used)[k].id : k \in {k \in 1..Len(list) : list[k].id = ""}}

MissingIds(list) == Cardinality({k \in 1..Len(list) : list[k].id = ""})

\* localStorage.getItem("testCases") || "[]", event.newValue || "[]"
OrEmptyArray(item) == IF Truthy(item) THEN item ELSE Item("array", <<>>)

\* The initializer of the testCases state.
LoadCases(item, used) ==
    LET stored == parse(OrEmptyArray(item)) IN
    IF stored.threw \/ ~stored.isArray THEN <<>> ELSE FillIds(stored.elems, used)

\* Resync, had the incoming array been taken whatever it serializes as.
ResyncAlways(prev, next, used) == [cases |-> FillIds(next, used), same |-> FALSE]

\* The updater handleStorage hands to setTestCases; prev itself comes back
\* when the incoming array serializes as prev does.
Resync(prev, next, used) ==
    LET incoming == FillIds(next, used) IN
    IF stringify(prev) = stringify(incoming) THEN [cases |-> prev, same |-> TRUE]
    ELSE [cases |-> incoming, same |-> FALSE]

\* The calls of addTestCase, the writes of other tabs and the calls of
\* runAllTestCases that return at once, counted together.
MaxAppEvents == 1

AppEvents == addCalls + Len(storageQueue) + storageEvents.count + ignoredClicks

\* Items the store holds at startup or gets from another tab.
StoredArrays ==
    {<<>>,
     <<StringifyCase(Catalog[1])>>,
     <<StringifyCase([Catalog[3] EXCEPT !.id = ""]), StringifyCase(Catalog[1])>>}

StoredItems ==
    {NULL, Item("none", <<>>), Item("object", <<>>)} \cup {Item("array", a) : a \in StoredArrays}

\* The App is mounted: the state is initialized from the store, and the
\* effect on [testCases] is due after the first render.
InitApp ==
    /\ FormIdle
    /\ RunnerIdle
    /\ GenIdle
    /\ hasFormData = TRUE
    /\ now = 0
    /\ localStorage \in StoredItems
    /\ testCases = LoadCases(localStorage, {})
    /\ issued = IdsFilled(parse(OrEmptyArray(localStorage)).elems, {})
    /\ persistDue = TRUE
    /\ storedByOthers = FALSE
    /\ storageQueue = <<>>
    /\ storageEvents = [count |-> 0, last |-> NULL]
    /\ ignoredClicks = 0
    /\ addCalls = 0
    /\ isRunning = FALSE
    /\ phase = "idle"
    /\ batch = <<>>
    /\ results = <<>>
    /\ pending = {}
    /\ httpLog = <<>>
    /\ threwLog = {}
    /\ reports = [html |-> NULL, junit |-> NULL, archive |-> "none", archiveOf |-> NULL]
    /\ lastRunSummary = NULL
    /\ allurePreview = NULL
    /\ previewNotice = NULL
    /\ loadingWindow = FALSE

\* Persist, had the effect stored the test cases without their lastRun.
PersistWithoutLastRun ==
    /\ persistDue
    /\ localStorage' = stringify([k \in 1..Len(testCases) |->
                                    [testCases[k] EXCEPT !.lastRun = UNDEF]])
    /\ persistDue' = FALSE
    /\ storedByOthers' = FALSE
    /\ UNCHANGED <<hasFormData, now, appVars, runVars, genVars, formVars, issued,
                   storageQueue, storageEvents, ignoredClicks, addCalls>>

\* The effect on [testCases]: localStorage.setItem("testCases", JSON.stringify(testCases))
Persist ==
    /\ persistDue
    /\ localStorage' = stringify(testCases)
    /\ persistDue' = FALSE
    /\ storedByOthers' = FALSE
    /\ UNCHANGED <<hasFormData, now, appVars, runVars, genVars, formVars, issued,
                   storageQueue, storageEvents, ignoredClicks, addCalls>>

\* Test cases handed to addTestCase: handleSave gives each an id of its own,
\* another caller may give none.
NewCases(used) ==
    {[Catalog[3] EXCEPT !.id = id, !.caseName = "added"] : id \in {"", CHOOSE u \in UuidPool \ used : TRUE}}

\* addTestCase(testCase)
AddTestCase ==
    /\ AppEvents < MaxAppEvents
    /\ UuidPool \ issued # {}
    /\ addCalls' = addCalls + 1
    /\ \E testCase \in NewCases(issued) :
         \E used \in {issued \cup ({testCase.id} \ {""})} :
            /\ testCases' = testCases \o FillIds(<<testCase>>, used)
            /\ issued' = used \cup IdsFilled(<<testCase>>, used)
    /\ persistDue' = TRUE
    /\ UNCHANGED <<hasFormData, now, isRunning, phase, batch, results, pending, httpLog,
                   threwLog, reports, lastRunSummary, allurePreview, previewNotice,
                   loadingWindow, runVars, genVars, formVars, localStorage, storedByOthers,
                   storageQueue, storageEvents, ignoredClicks>>

\* Another tab of the origin changes an item of the store: the store holds
\* the new value, and a storage event is dispatched to this tab.
ExternalWrite ==
    /\ AppEvents < MaxAppEvents
    /\ \E key \in {"testCases", "theme"} :
         \E newValue \in IF key = "testCases" THEN StoredItems \cup {stringify(testCases)}
                          ELSE {Item("none", <<>>)} :
            /\ key = "testCases" => newValue # localStorage
            /\ storageQueue' = Append(storageQueue, [key |-> key, newValue |-> newValue])
            /\ localStorage' = IF key = "testCases" THEN newValue ELSE localStorage
            /\ storedByOthers' = (storedByOthers \/ key = "testCases")
    /\ UNCHANGED <<hasFormData, now, appVars, runVars, genVars, formVars, persistDue, issued,
                   storageEvents, ignoredClicks, addCalls>>

\* handleStorage(event)
HandleStorage ==
    /\ storageQueue # <<>>
    /\ \E event \in {Head(storageQueue)} :
         \E next \in {parse(OrEmptyArray(event.newValue))} :
            /\ storageQueue' = Tail(storageQueue)
            /\ storageEvents' = [count |-> storageEvents.count + 1, last |-> event]
            /\ IF event.key # "testCases" \/ next.threw \/ ~next.isArray
               THEN UNCHANGED <<testCases, persistDue, issued>>
               ELSE /\ MissingIds(next.elems) <= Cardinality(UuidPool \ issued)
                    /\ \E update \in {Resync(testCases, next.elems, issued)} :
                         /\ testCases' = update.cases
                         /\ persistDue' = (persistDue \/ ~update.same)
                    /\ issued' = issued \cup IdsFilled(next.elems, issued)
    /\ UNCHANGED <<hasFormData, now, isRunning, phase, batch, results, pending, httpLog,
                   threwLog, reports, lastRunSummary, allurePreview, previewNotice,
                   loadingWindow, runVars, genVars, formVars, localStorage, storedByOthers,
                   ignoredClicks, addCalls>>

\* runAllTestCases is called with no test case to run or with a run in
\* progress: it returns at once.
RunAllIgnored ==
    /\ testCases = <<>> \/ isRunning
    /\ AppEvents < MaxAppEvents
    /\ ignoredClicks' = ignoredClicks + 1
    /\ UNCHANGED <<hasFormData, now, appVars, runVars, genVars, formVars, localStorage,
                   persistDue, storedByOthers, issued, storageQueue, storageEvents, addCalls>>

AppNext ==
    \/ RunAll
    \/ HttpComplete
    \/ ArchiveDone
    \/ Persist
    \/ AddTestCase
    \/ ExternalWrite
    \/ HandleStorage
    \/ RunAllIgnored

AppSpec == InitApp /\ [][AppNext]_vars

----------------------------------------------------------------------------
(* Text of the reports: String(value), template literals and escaping *)

DigitChars == <<"0", "1", "2", "3", "4", "5", "6", "7", "8", "9">>

RECURSIVE NatChars(_)
NatChars(n) ==
    IF n < 10 THEN <<DigitChars[n + 1]>>
    ELSE NatChars(n \div 10) \o <<DigitChars[(n % 10) + 1]>>

\* String(value), also the text of ${value} in a template literal.
String(value) ==
    CASE value.t = "undefined" -> <<"u", "n", "d", "e", "f", "i", "n", "e", "d">>
      [] value.t = "null" -> <<"n", "u", "l", "l">>
      [] value.t = "NaN" -> <<"N", "a", "N">>
      [] value.t = "number" ->
            IF value.v < 0 THEN <<"-">> \o NatChars(-value.v) ELSE NatChars(value.v)
      [] value.t = "string" -> value.v
      [] value.t = "text" -> <<value.v>>

\* a || b
Or(a, b) == IF Truthy(a) THEN a ELSE b

\* a ?? b
Coalesce(a, b) == IF IsNullish(a) THEN b ELSE a

\* str.replace(/c/g, replacement)
RECURSIVE ReplaceAll(_, _, _)
ReplaceAll(s, c, replacement) ==
    IF s = <<>> THEN <<>>
    ELSE (IF Head(s) = c THEN replacement ELSE <<Head(s)>>)
         \o ReplaceAll(Tail(s), c, replacement)

AmpEntity == <<"&", "a", "m", "p", ";">>
LtEntity == <<"&", "l", "t", ";">>
GtEntity == <<"&", "g", "t", ";">>
QuotEntity == <<"&", "q", "u", "o", "t", ";">>
AposEntity == <<"&", "a", "p", "o", "s", ";">>
Apos39Entity == <<"&", "#", "3", "9", ";">>

\* const escapeXml = value => ...
escapeXml(value) ==
    LET raw == ensureTrimmed(Coalesce(value, Str(<<>>)))
        str == String(raw)
    IN ReplaceAll(ReplaceAll(ReplaceAll(ReplaceAll(ReplaceAll(str,
            "&", AmpEntity), "<", LtEntity), ">", GtEntity), "\"", QuotEntity),
            "'", AposEntity)

\* const escapeHtml = value => ...
escapeHtml(value) ==
    LET raw == ensureTrimmed(Coalesce(value, Str(<<>>)))
        str == String(raw)
    IN ReplaceAll(ReplaceAll(ReplaceAll(ReplaceAll(ReplaceAll(str,
            "&", AmpEntity), "<", LtEntity), ">", GtEntity), "\"", QuotEntity),
            "'", Apos39Entity)

----------------------------------------------------------------------------
(* generateJUnitReport *)

\* The {} that stands for a test case that is not found.
EmptyObject == [id |-> "", caseName |-> UNDEF, method |-> UNDEF, url |-> UNDEF]

\* Object.fromEntries(testCases.map(tc => [tc.id, tc]))[caseId] || {}
CaseById(cases, caseId) ==
    LET hits == {i \in 1..Len(cases) : cases[i].id = caseId} IN
    IF hits = {} THEN EmptyObject
    ELSE cases[CHOOSE i \in hits : \A j \in hits : j <= i]

UnnamedCase == <<"U", "n", "n", "a", "m", "e", "d", "sp", "C", "a", "s", "e">>
ExpectedPrefix == <<"E", "x", "p", "e", "c", "t", "e", "d", "sp">>
GotInfix == <<",", "sp", "g", "o", "t", "sp">>
Any2xx == <<"2", "x", "x">>
ErrorWord == <<"e", "r", "r", "o", "r">>
RequestFailed == <<"R", "e", "q", "u", "e", "s", "t", "sp", "f", "a", "i", "l", "e", "d">>

\* The name of the <testcase> of a result.
JUnitName(target, result) ==
    LET fallbackName ==
            Trim(String(Or(target.method, Or(result.caseName, Str(<<>>))))
                 \o <<"sp">> \o String(Or(target.url, Str(<<>>))))
    IN Or(target.caseName, Or(result.caseName, Or(Str(fallbackName), Str(UnnamedCase))))

\* JUnitFailure, had it left the error message out.
JUnitFailureWithoutError(result) ==
    [message |-> ExpectedPrefix \o String(Coalesce(result.expectedStatus, Str(Any2xx)))
                    \o GotInfix \o String(Coalesce(result.status, Str(ErrorWord))),
     body |-> RequestFailed]

\* failureBlock of a result that is not ok: the message attribute and the
\* text of the <failure> element.
JUnitFailure(result) ==
    [message |-> ExpectedPrefix \o String(Coalesce(result.expectedStatus, Str(Any2xx)))
                    \o GotInfix \o String(Coalesce(result.status, Str(ErrorWord))),
     body |-> String(Or(result.error, Str(RequestFailed)))]

\* JUnitTotal, had it counted the results.
JUnitTotalOfResults(cases, res) == Len(res)

\* const total = testCases.length
JUnitTotal(cases, res) == Len(cases)

\* The document generateJUnitReport returns: the attributes of <testsuite>
\* and its <testcase> elements, each with the text embedded in it and its
\* <failure> elements; time is the number (result.timeMs || 0) / 1000, kept
\* in milliseconds.
generateJUnitReport(cases, res) ==
    [tests |-> String(Num(JUnitTotal(cases, res))),
     failures |-> String(Num(Cardinality({i \in 1..Len(res) : ~res[i].ok}))),
     testcases |->
        [i \in 1..Len(res) |->
            [name |-> escapeXml(JUnitName(CaseById(cases, res[i].caseId), res[i])),
             timeMs |-> Or(Num(res[i].timeMs), Num(0)).v,
             failure |-> IF res[i].ok THEN <<>> ELSE <<JUnitFailure(res[i])>>]]]

----------------------------------------------------------------------------
(* generateAllureArchive *)

\* folder.file(name, data) of JSZip: a file of that name is replaced.
ZipFile(files, name, data) ==
    LET entry == [dir |-> "allure-results", name |-> name, data |-> data] IN
    IF \E i \in 1..Len(files) : files[i].name = name
    THEN [i \in 1..Len(files) |-> IF files[i].name = name THEN entry ELSE files[i]]
    ELSE Append(files, entry)

\* The executor object, with no options given.
Executor(at) ==
    [name |-> Text("Browser Runner"), type |-> "browser",
     reportName |-> [prefix |-> "API Suite ", runTimestamp |-> at]]

\* AllureStatus, had an outcome with an error been reported as broken.
AllureStatusWithBroken(result) ==
    IF result.ok THEN "passed" ELSE IF Truthy(result.error) THEN "broken" ELSE "failed"

\* const status = result.ok ? "passed" : "failed"
AllureStatus(result) == IF result.ok THEN "passed" ELSE "failed"

\* The allureResult object of a result; JSON.stringify writes it to the
\* file as it is, without the properties that are undefined.
AllureResult(cases, result, uuid, at) ==
    LET relatedCase == CaseById(cases, result.caseId)
        method == Or(relatedCase.method, Str(GET))
        url == Or(relatedCase.url, Str(<<>>))
        fullName == Str(Trim(String(method) \o <<"sp">> \o String(url)))
        time == Or(Num(result.timeMs), Num(0)).v
        name == Or(relatedCase.caseName,
                   Or(result.caseName, Or(fullName, Str(UnnamedCase))))
    IN [uuid |-> uuid,
        historyId |-> IF relatedCase.id # "" THEN relatedCase.id
                      ELSE IF result.caseId # "" THEN result.caseId ELSE uuid,
        name |-> name,
        fullName |-> Or(fullName, name),
        status |-> AllureStatus(result),
        stage |-> "finished",
        statusDetails |->
            IF ~result.ok
            THEN [message |-> Or(result.error,
                                 Str(ExpectedPrefix
                                     \o String(Coalesce(result.expectedStatus, Str(Any2xx)))
                                     \o GotInfix
                                     \o String(Coalesce(result.status, Str(ErrorWord))))),
                  trace |-> Or(result.warning, UNDEF)]
            ELSE IF Truthy(result.warning)
            THEN [message |-> result.warning, trace |-> UNDEF]
            ELSE [message |-> UNDEF, trace |-> UNDEF],
        start |-> at - time,
        stop |-> at,
        time |-> time,
        parameters |->
            <<[name |-> "method", value |-> String(method)],
              [name |-> "url", value |-> String(url)]>>
            \o (IF ~IsNullish(result.expectedStatus)
                THEN <<[name |-> "expectedStatus", value |-> String(result.expectedStatus)]>>
                ELSE <<>>)]

ResultFileName(uuid) == <<uuid, "-result.json">>

\* The files of the archive after executor.json and the first n results.
RECURSIVE AllureFiles(_, _, _, _, _)
AllureFiles(cases, res, uuids, at, n) ==
    IF n = 0 THEN ZipFile(<<>>, <<"executor.json">>, Executor(at))
    ELSE ZipFile(AllureFiles(cases, res, uuids, at, n - 1), ResultFileName(uuids[n]),
                 AllureResult(cases, res[n], uuids[n], at))

\* The archive generateAllureArchive resolves with; uuids are the values
\* uuidv4() returns, at is the clock.
generateAllureArchive(cases, res, uuids, at) ==
    [files |-> AllureFiles(cases, res, uuids, at, Len(res))]

FreshUuids(n) ==
    {u \in [1..n -> UuidPool] : \A i, j \in 1..n : u[i] = u[j] => i = j}

----------------------------------------------------------------------------
(* generateAllureHtml *)

\* new Date(at).toISOString(): the ISO text of the instant at.
toISOString(at) == [t |-> "iso", v |-> at]

\* new Date(iso).toLocaleString(): the text of the instant in the locale and
\* time zone of the browser.
toLocaleString(iso) == Str(<<"L">> \o NatChars(iso.v))

\* const formatDateTime = iso => ...
formatDateTime(iso) ==
    IF ~Truthy(iso) THEN Str(<<"-">>) ELSE toLocaleString(iso)

\* const formatDuration = ms => ... for a finite ms: "N ms" below 1000,
\* seconds with two decimals below 10 s and with none from 10 s on.
formatDuration(ms) ==
    IF ms >= 1000
    THEN (IF ms >= 10000
          THEN NatChars((ms + 500) \div 1000)
          ELSE LET hundredths == (ms + 5) \div 10 IN
               NatChars(hundredths \div 100) \o <<".">>
               \o <<DigitChars[((hundredths \div 10) % 10) + 1],
                    DigitChars[(hundredths % 10) + 1]>>)
         \o <<"sp", "s">>
    ELSE NatChars(ms) \o <<"sp", "m", "s">>

RECURSIVE TotalDuration(_)
TotalDuration(res) ==
    IF res = <<>> THEN 0
    ELSE TotalDuration(SubSeq(res, 1, Len(res) - 1)) + Or(Num(res[Len(res)].timeMs), Num(0)).v

\* ExecutedAtOf, had it always read the clock.
ExecutedAtOfClock(meta, at) == toISOString(at)

\* const executedAt = meta.executedAt || new Date().toISOString()
ExecutedAtOf(meta, at) == Or(meta.executedAt, toISOString(at))

\* The dash shown for a status that is missing.
EmDash == <<"emdash">>
CaseNumberPrefix == <<"C", "a", "s", "e", "sp", "#">>

\* The card of result idx.
CaseCard(cases, result, idx) ==
    LET target == CaseById(cases, result.caseId)
        method == Or(target.method, Str(GET))
        url == Or(target.url, Str(<<>>))
        fallbackName == Str(Trim(String(method) \o <<"sp">> \o String(url)))
        name == Or(target.caseName, Or(result.caseName,
                   Or(fallbackName, Str(CaseNumberPrefix \o NatChars(idx)))))
    IN [class |-> IF result.ok THEN "case--passed" ELSE "case--failed",
        dataStatus |-> IF result.ok THEN "passed" ELSE "failed",
        dataWarning |-> Truthy(result.warning),
        statusLabel |-> IF result.ok THEN "Passed" ELSE "Failed",
        name |-> escapeHtml(name),
        method |-> escapeHtml(method),
        expected |-> escapeHtml(IF ~IsNullish(result.expectedStatus)
                                THEN result.expectedStatus ELSE Str(EmDash)),
        actual |-> escapeHtml(IF ~IsNullish(result.status) THEN result.status ELSE Str(EmDash)),
        duration |-> escapeHtml(Str(formatDuration(result.timeMs))),
        url |-> escapeHtml(url),
        executed |-> escapeHtml(formatDateTime(toISOString(result.executedAt))),
        warning |-> IF Truthy(result.warning) THEN <<escapeHtml(result.warning)>> ELSE <<>>,
        error |-> IF Truthy(result.error) THEN <<escapeHtml(result.error)>> ELSE <<>>]

\* The document generateAllureHtml returns: the texts it embeds in the
\* header, the summary, the filters and the cards; at is the clock.
generateAllureHtml(cases, res, meta, at) ==
    LET total == Len(res)
        passed == Cardinality({i \in 1..Len(res) : res[i].ok})
        failed == total - passed
        warnings == Cardinality({i \in 1..Len(res) : Truthy(res[i].warning)})
        executedDisplay == formatDateTime(ExecutedAtOf(meta, at))
    IN [generated |-> escapeHtml(executedDisplay),
        totalDuration |-> escapeHtml(Str(formatDuration(TotalDuration(res)))),
        total |-> escapeHtml(Str(NatChars(total))),
        passed |-> escapeHtml(Str(NatChars(passed))),
        failed |-> escapeHtml(Str(NatChars(failed))),
        warnings |-> escapeHtml(Str(NatChars(warnings))),
        filters |-> <<[key |-> "all", count |-> NatChars(total)],
                      [key |-> "passed", count |-> NatChars(passed)],
                      [key |-> "failed", count |-> NatChars(failed)],
                      [key |-> "warning", count |-> NatChars(warnings)]>>,
        cards |-> [i \in 1..Len(res) |-> CaseCard(cases, res[i], i)],
        empty |-> res = <<>>]

----------------------------------------------------------------------------
(* Calls of the report generators, on test cases and results drawn from     *)
(* bounded sets                                                             *)

MaxGenCases == 2
MaxGenResults == 2

GenCaseSet ==
    {[id |-> "c1", caseName |-> Str(<<"sp", "a", "&", "b">>), method |-> Str(GET),
      url |-> Str(<<"u">>)],
     [id |-> "c1", caseName |-> Str(<<"b">>), method |-> Str(GET), url |-> Str(<<"u">>)],
     [id |-> "c2", caseName |-> Str(<<>>), method |-> Str(POST),
      url |-> Str(<<"u", "?", "z">>)]}

GenOutcome(caseId, caseName, ok, status, expectedStatus, timeMs, warning, error) ==
    [caseId |-> caseId, caseName |-> caseName, ok |-> ok, status |-> status,
     statusText |-> UNDEF, timeMs |-> timeMs, expectedStatus |-> expectedStatus,
     warning |-> warning, executedAt |-> 0, error |-> error]

\* Outcomes of the kinds runTestCase and the batch produce: passed, failed
\* on the status, failed in transport, and the fallback of a rejection.
GenOutcomeSet ==
    {GenOutcome("c1", Str(<<"a">>), TRUE, Num(200), Num(200), TickMs, NotJsonWarning, NULL),
     GenOutcome("c1", Str(<<"a">>), FALSE, Num(404), NULL, 0, NULL, NULL),
     GenOutcome("c2", Str(<<>>), FALSE, UNDEF, Num(0), 3 * TickMs, NULL,
                Str(<<"a", "<", "b">>)),
     GenOutcome("c9", Str(<<"<", "n", ">">>), FALSE, NULL, NULL, 0, NULL,
                Str(<<"'", "b", "t", "o", "a", "'">>))}

\* meta: none, or the executedAt of the run.
GenMetas == {[executedAt |-> UNDEF], [executedAt |-> toISOString(TickMs)]}

SeqsUpTo(S, n) == UNION {[1..k -> S] : k \in 0..n}

InitReport ==
    /\ StoreIdle
    /\ FormIdle
    /\ hasFormData = TRUE
    /\ now = 0
    /\ AppIdle
    /\ RunnerIdle
    /\ gcases \in SeqsUpTo(GenCaseSet, MaxGenCases)
    /\ gresults \in SeqsUpTo(GenOutcomeSet, MaxGenResults)
    /\ gmeta \in GenMetas
    /\ gjunit = NULL
    /\ gzip = NULL
    /\ ghtml = <<>>

NothingGenerated == gjunit = NULL /\ gzip = NULL /\ ghtml = <<>>

\* generateJUnitReport(gcases, gresults) is called.
GenerateJUnit ==
    /\ NothingGenerated
    /\ gjunit' = generateJUnitReport(gcases, gresults)
    /\ UNCHANGED <<hasFormData, now, appVars, runVars, storeVars, formVars,
                   gcases, gresults, gmeta, gzip, ghtml>>

\* generateAllureArchive(gcases, gresults) is called and resolves.
GenerateArchive ==
    /\ NothingGenerated
    /\ \E uuids \in FreshUuids(Len(gresults)) :
            gzip' = generateAllureArchive(gcases, gresults, uuids, now)
    /\ UNCHANGED <<hasFormData, now, appVars, runVars, storeVars, formVars,
                   gcases, gresults, gmeta, gjunit, ghtml>>

\* generateAllureHtml(gcases, gresults, gmeta) is called, a first and a
\* second time.
GenerateHtml ==
    /\ gjunit = NULL
    /\ gzip = NULL
    /\ Len(ghtml) < 2
    /\ ghtml' = Append(ghtml, generateAllureHtml(gcases, gresults, gmeta, now))
    /\ UNCHANGED <<hasFormData, now, appVars, runVars, storeVars, formVars,
                   gcases, gresults, gmeta, gjunit, gzip>>

\* Time passes between the two calls of generateAllureHtml.
Tick ==
    /\ Len(ghtml) = 1
    /\ now < MaxTicks * TickMs
    /\ now' = now + TickMs
    /\ UNCHANGED <<hasFormData, appVars, runVars, genVars, storeVars, formVars>>

ReportNext == GenerateJUnit \/ GenerateArchive \/ GenerateHtml \/ Tick

ReportSpec == InitReport /\ [][ReportNext]_vars

----------------------------------------------------------------------------
(* Properties of runTestCase and of the request it builds *)

\* The status range of the "any 2xx" rule.
Is2xx(status) == status.t = "number" /\ status.v >= 200 /\ status.v < 300

\* C1: for a test case whose expectedStatus is null, a response gives
\* ok = TRUE exactly when 200 <= status < 300.
C1_NullExpectedMeansAny2xx ==
    (rstate = "returned" /\ rtc.expectedStatus = NULL /\ rdone.kind = "response")
        => (rout.ok <=> Is2xx(rdone.response.status))

\* The url is missing, empty or only white space.
UrlMissing(testCase) ==
    \/ IsNullish(testCase.url)
    \/ \A i \in 1..Len(testCase.url.v) : testCase.url.v[i] \in JsWhiteSpace

\* C6: runTestCase rejects, before any HTTP call and without an Outcome,
\* when the url is missing, and a missing url is the only condition under
\* which it rejects.
C6_RejectsOnlyOnMissingUrl ==
    rstate # "ready" =>
        /\ (rstate = "threw") <=> UrlMissing(rtc)
        /\ rstate = "threw" => (rcalls = 0 /\ rout = NoOutcome)

\* C7: on a transport failure runTestCase returns an Outcome with ok = FALSE,
\* the failure message as error, the status and statusText of the partial
\* response when there is one and undefined otherwise, and the time elapsed
\* up to the failure; the call was attempted exactly once.
C7_TransportFailureOutcome ==
    (rstate = "returned" /\ rdone.kind = "error") =>
        /\ rout.ok = FALSE
        /\ rout.error = rdone.error.message
        /\ rout.status = (IF rdone.error.hasResponse
                          THEN rdone.error.response.status ELSE UNDEF)
        /\ rout.statusText = (IF rdone.error.hasResponse
                              THEN rdone.error.response.statusText ELSE UNDEF)
        /\ rout.timeMs = rdone.d
        /\ rout.caseId = rtc.id
        /\ rcalls = 1

C7_Witness ==
    /\ rstate = "returned"
    /\ rdone.kind = "error"
    /\ rdone.error.hasResponse
    /\ rdone.d > 0
    /\ rout.status = Num(404)

\* The method is GET in any letter case, or absent.
IsGetMethod(method) ==
    \/ ~Truthy(method)
    \/ /\ method.t = "string"
       /\ Len(method.v) = 3
       /\ method.v[1] \in {"g", "G"}
       /\ method.v[2] \in {"e", "E"}
       /\ method.v[3] \in {"t", "T"}

\* C8: the request built for a GET test case (in any letter case, or with no
\* method) carries no body and no body warning is raised, whatever bodyType,
\* rawBody and formData are.
C8_GetHasNoBody ==
    (rstate = "pending" /\ IsGetMethod(rtc.method)) =>
        /\ rprep.request.data = UNDEF
        /\ rprep.warning = NULL

C8_Witness ==
    /\ rstate = "pending"
    /\ rtc.method = Str(<<"G", "e", "t">>)
    /\ rtc.bodyType = "raw"
    /\ rtc.rawBody = Str(<<"x", "1">>)
    /\ rprep.request.method = GET

IsBlank(text) == \A i \in 1..Len(text) : text[i] \in JsWhiteSpace

\* C9: for a non-GET test case with bodyType raw, a blank rawBody gives no
\* body and no warning, a rawBody that is valid JSON gives the parsed value
\* and no warning, and a non-blank rawBody that is not valid JSON gives the
\* literal text and the warning.
C9_RawBodyRule ==
    (rstate = "pending" /\ ~IsGetMethod(rtc.method) /\ rtc.bodyType = "raw") =>
        LET text == IF IsNullish(rtc.rawBody) THEN <<>> ELSE rtc.rawBody.v IN
        IF IsBlank(text)
        THEN rprep.request.data = UNDEF /\ rprep.warning = NULL
        ELSE IF JSONParse(text).ok
        THEN rprep.request.data = JSONParse(text).val /\ rprep.warning = NULL
        ELSE rprep.request.data = Str(text) /\ rprep.warning = NotJsonWarning

\* The builder raises the body warning for this test case: a non-GET method
\* with the raw body "x".
RaisesWarning(testCase) ==
    /\ ~IsGetMethod(testCase.method)
    /\ testCase.bodyType = "raw"
    /\ testCase.rawBody = Str(<<"x">>)

\* A credential the request cannot be built with.
Unencodable(testCase) ==
    \/ testCase.authType = "Basic" /\ Includes(testCase.auth.password, "euro")
    \/ testCase.authType = "ApiKey" /\ Includes(testCase.auth.apiKey, "surr")

\* C10: a body warning never blocks execution and never changes the verdict:
\* the HTTP call is still issued, the Outcome carries the builder's warning
\* on the success and on the transport-failure path, and ok is decided by
\* the status alone.
C10_WarningIsNotFatal ==
    (rstate # "ready" /\ ~UrlMissing(rtc) /\ ~Unencodable(rtc)) =>
        /\ rstate \in {"pending", "returned"}
        /\ rcalls = 1
        /\ rprep.warning = (IF RaisesWarning(rtc) THEN NotJsonWarning ELSE NULL)
        /\ rstate = "returned" =>
            /\ rout.warning = (IF RaisesWarning(rtc) THEN NotJsonWarning ELSE NULL)
            /\ rdone.kind = "response" =>
                (rout.ok <=> IF IsNullish(rout.expectedStatus)
                             THEN Is2xx(rout.status)
                             ELSE rout.status = rout.expectedStatus)
            /\ rdone.kind = "error" => ~rout.ok

C10_Witness ==
    /\ rstate = "returned"
    /\ RaisesWarning(rtc)
    /\ rtc.expectedStatus = Num(200)
    /\ rdone.kind = "response"
    /\ rout.status = Num(200)
    /\ rout.ok
    /\ rout.warning = NotJsonWarning

----------------------------------------------------------------------------
(* Properties of the request: url, headers, timeout *)

QueryKeyConfigured(testCase) ==
    testCase.authType = "ApiKey" /\ testCase.auth.apiKeyLocation = "query"

Joiner(url) == IF Includes(url, "?") THEN <<"&">> ELSE <<"?">>

\* C11 as stated: with authType ApiKey and location query the final url is
\* the trimmed url joined by "?" or "&" with encoded(name)=encoded(value),
\* the name defaulting to "apiKey" when unset; otherwise it is the trimmed
\* url unchanged.
C11_QueryKeyAppended ==
    rstate = "pending" =>
        LET url == Trim(rtc.url.v)
            name == IF rtc.auth.apiKeyName = <<>> THEN DefaultApiKeyParam
                    ELSE rtc.auth.apiKeyName
        IN rprep.request.url =
            (IF QueryKeyConfigured(rtc)
             THEN url \o Joiner(url) \o PercentEncode(name) \o <<"=">>
                      \o PercentEncode(rtc.auth.apiKey)
             ELSE url)

\* C11 as amended: the parameter is appended only when the apiKey is not
\* empty as well, and its name is the trimmed apiKeyName, defaulting to
\* "apiKey" when that is empty; in every other configuration, an empty
\* apiKey included, the final url is the trimmed url unchanged.
C11_QueryKeyAppendedIfNonEmpty ==
    rstate = "pending" =>
        LET url == Trim(rtc.url.v)
            name == IF IsBlank(rtc.auth.apiKeyName) THEN DefaultApiKeyParam
                    ELSE Trim(rtc.auth.apiKeyName)
        IN rprep.request.url =
            (IF QueryKeyConfigured(rtc) /\ rtc.auth.apiKey # <<>>
             THEN url \o Joiner(url) \o PercentEncode(name) \o <<"=">>
                      \o PercentEncode(rtc.auth.apiKey)
             ELSE url)

C11_Witness ==
    /\ rstate = "pending"
    /\ rtc.url = Str(<<"sp", "u", "?", "z", "sp">>)
    /\ QueryKeyConfigured(rtc)
    /\ rtc.auth.apiKeyName = <<"sp", "t", "sp">>
    /\ rprep.request.url = <<"u", "?", "z", "&", "t", "=", "a", "%", "2", "6">>

HeaderKeys(headers) == {headers[i].key : i \in 1..Len(headers)}

HeaderValue(headers, key) ==
    headers[CHOOSE i \in 1..Len(headers) : headers[i].key = key].value

\* The value of the last entry of the header list with this key.
LastListed(list, key) ==
    list[CHOOSE i \in 1..Len(list) :
            /\ list[i].key = key
            /\ \A j \in (i + 1)..Len(list) : list[j].key # key].value

\* base64("u:p")
Base64OfUP == <<"d", "T", "p", "w">>

\* The header the authorization settings call for: none or one.
AuthHeader(testCase) ==
    LET auth == testCase.auth IN
    IF testCase.authType = "Bearer" /\ auth.token # <<>>
    THEN {[key |-> AuthorizationKey, value |-> BearerPrefix \o auth.token]}
    ELSE IF testCase.authType = "Basic" /\ auth.username = <<"u">> /\ auth.password = <<"p">>
    THEN {[key |-> AuthorizationKey, value |-> BasicPrefix \o Base64OfUP]}
    ELSE IF testCase.authType = "ApiKey" /\ auth.apiKeyLocation = "header"
            /\ auth.apiKey # <<>>
    THEN {[key |-> IF IsBlank(auth.apiKeyName) THEN DefaultApiKeyHeader
                   ELSE Trim(auth.apiKeyName),
           value |-> auth.apiKey]}
    ELSE {}

\* The key is "content-type" in some letter case.
IsContentTypeKey(key) ==
    /\ Len(key) = 12
    /\ \A i \in 1..12 :
          \/ key[i] = ContentTypeLower[i]
          \/ key[i] = ContentTypeKey[i]

FormEncoded(request) == request.data.t = "formdata"

\* C12: the header set is the header list with empty keys ignored and the
\* last value of a duplicate key, with the authorization header on top:
\* Bearer and a token, Basic with username and password, ApiKey in a header
\* named by the trimmed apiKeyName or x-api-key with a non-empty apiKey;
\* nothing else is added (content-type keys of a form-encoded request
\* aside).
C12_HeadersThenAuthorization ==
    rstate = "pending" =>
        LET h == rprep.request.headers
            listed == {rtc.headers[i].key : i \in 1..Len(rtc.headers)} \ {<<>>}
            added == AuthHeader(rtc)
            expected == {k \in listed \cup {a.key : a \in added} :
                            ~(FormEncoded(rprep.request) /\ IsContentTypeKey(k))}
        IN /\ \A i, j \in 1..Len(h) : h[i].key = h[j].key => i = j
           /\ HeaderKeys(h) = expected
           /\ \A k \in expected :
                 HeaderValue(h, k) =
                    (IF \E a \in added : a.key = k
                     THEN (CHOOSE a \in added : a.key = k).value
                     ELSE LastListed(rtc.headers, k))

C12_Witness ==
    /\ rstate = "pending"
    /\ rtc.authType = "Basic"
    /\ Len(rtc.headers) = 3
    /\ rtc.headers[2].key = AuthorizationKey
    /\ ~FormEncoded(rprep.request)
    /\ rprep.request.headers =
          <<[key |-> ContentTypeLower, value |-> <<"a">>],
            [key |-> AuthorizationKey, value |-> BasicPrefix \o Base64OfUP],
            [key |-> ContentTypeKey, value |-> <<"b">>]>>

\* C13: a form-encoded request has no header whose key is content-type in
\* any letter case, whatever the header list and the authorization are; a
\* request that is not form-encoded keeps every content-type header.
C13_FormDataStripsContentType ==
    rstate = "pending" =>
        LET h == rprep.request.headers
            asked == ({rtc.headers[i].key : i \in 1..Len(rtc.headers)} \ {<<>>})
                        \cup {a.key : a \in AuthHeader(rtc)}
        IN IF FormEncoded(rprep.request)
           THEN \A i \in 1..Len(h) : ~IsContentTypeKey(h[i].key)
           ELSE \A k \in asked : IsContentTypeKey(k) => k \in HeaderKeys(h)

C13_Witness ==
    /\ rstate = "pending"
    /\ FormEncoded(rprep.request)
    /\ Len(rtc.headers) = 3
    /\ rtc.authType = "ApiKey"
    /\ rtc.auth.apiKeyLocation = "header"
    /\ rtc.auth.apiKeyName = ContentTypeKey
    /\ rtc.auth.apiKey # <<>>
    /\ rprep.request.headers = <<[key |-> AuthorizationKey, value |-> <<"x">>]>>

\* C14: the request carries a timeout exactly when maxResponseTime is a
\* positive number, and the timeout is then maxResponseTime * 1000 ms.
C14_TimeoutIffPositive ==
    rstate = "pending" =>
        rprep.request.timeout =
            (IF rtc.maxResponseTime.t = "number" /\ rtc.maxResponseTime.v > 0
             THEN Num(rtc.maxResponseTime.v * 1000)
             ELSE UNDEF)

C14_Witness ==
    /\ rstate = "pending"
    /\ rtc.maxResponseTime = Num(2)
    /\ rprep.request.timeout = Num(2000)

----------------------------------------------------------------------------
(* Properties of the batch run *)

\* The status of an Outcome meets its expectedStatus criterion.
StatusMatches(outcome) ==
    IF IsNullish(outcome.expectedStatus)
    THEN Is2xx(outcome.status)
    ELSE outcome.status = outcome.expectedStatus

\* C2 as stated: for every Outcome of the run, ok is TRUE if and only if its
\* status meets its expectedStatus criterion.
C2_OkIffStatusMatches ==
    \A i \in 1..Len(results) : results[i].ok <=> StatusMatches(results[i])

\* C2 as amended: for every Outcome of the run, ok is TRUE if and only if the
\* Outcome carries no error and its status meets its expectedStatus
\* criterion; an Outcome of the transport-failure path or of the fallback
\* has ok = FALSE whatever its status is.
C2_OkIffNoErrorAndStatusMatches ==
    \A i \in 1..Len(results) :
        results[i].ok <=> (results[i].error = NULL /\ StatusMatches(results[i]))

C2_Witness ==
    /\ phase = "done"
    /\ Len(results) = 2
    /\ results[1].error = MissingUrlError
    /\ results[1].status = NULL
    /\ ~results[1].ok
    /\ results[2].error = NULL
    /\ results[2].expectedStatus = NULL
    /\ results[2].status = Num(299)
    /\ results[2].ok

\* C3: the outcomes collected by the batch are one per test case, in test
\* case order, the i-th with the id of the i-th test case, and after the
\* loop there is one for every test case of the batch.
C3_OneOutcomePerCase ==
    /\ Len(results) <= Len(batch)
    /\ \A i \in 1..Len(results) : results[i].caseId = batch[i].id
    /\ phase \in {"archive", "done"} => Len(results) = Len(batch)
    /\ phase = "loop" => \A call \in pending : Len(results) = call.index - 1

C3_Witness ==
    /\ phase = "done"
    /\ Len(batch) = 2
    /\ threwLog = {2}
    /\ results[1].error = Text("Network Error")
    /\ results[2].error = MissingUrlError

Events(log) == {log[k] : k \in 1..Len(log)}

\* C4: the batch has at most one HTTP call in flight, a call is started
\* only when every call started before it has completed, and calls are
\* started in test case order.
C4_Sequential ==
    /\ Cardinality(pending) <= 1
    /\ \A k \in 1..Len(httpLog) : httpLog[k][1] = "start" =>
          \A j \in 1..(k - 1) : httpLog[j][1] = "start" =>
              /\ httpLog[j][2] < httpLog[k][2]
              /\ \E m \in (j + 1)..(k - 1) : httpLog[m] = <<"end", httpLog[j][2]>>
    /\ \A call \in pending :
          /\ <<"start", call.index>> \in Events(httpLog)
          /\ <<"end", call.index>> \notin Events(httpLog)
          /\ httpLog[Len(httpLog)] = <<"start", call.index>>

C4_Witness ==
    /\ phase = "loop"
    /\ httpLog = <<<<"start", 1>>, <<"end", 1>>, <<"start", 2>>>>
    /\ Cardinality(pending) = 1

\* C5: a failure of one test case (transport failure, status mismatch or
\* rejection) stops nothing: the loop is never left before its last case,
\* every case that can be sent has had its HTTP call, every other case has
\* been rejected by runTestCase, and the reports are generated.
C5_FailuresDoNotStopBatch ==
    /\ phase = "loop" => pending # {}
    /\ phase \in {"archive", "done"} =>
        /\ \A i \in 1..Len(batch) :
              IF UrlMissing(batch[i]) \/ Unencodable(batch[i])
              THEN i \in threwLog
              ELSE /\ <<"start", i>> \in Events(httpLog)
                   /\ <<"end", i>> \in Events(httpLog)
        /\ reports.html # NULL
        /\ reports.junit # NULL
        /\ reports.html.results = results

C5_Witness ==
    /\ phase = "done"
    /\ Len(batch) = 2
    /\ threwLog = {1}
    /\ <<"end", 2>> \in Events(httpLog)
    /\ results[2].error # NULL

----------------------------------------------------------------------------
(* Properties of the JUnit report *)

Failed(res) == {i \in 1..Len(res) : res[i].ok = FALSE}

\* C15: the failures attribute is the number of outcomes with ok = FALSE and
\* the tests attribute is the number of test cases, whatever the number of
\* outcomes is.
C15_JUnitCounts ==
    gjunit # NULL =>
        /\ gjunit.tests = NatChars(Len(gcases))
        /\ gjunit.failures = NatChars(Cardinality(Failed(gresults)))

C15_Witness ==
    /\ gjunit # NULL
    /\ Len(gcases) = 0
    /\ Len(gresults) = 2
    /\ gjunit.tests = <<"0">>
    /\ gjunit.failures = <<"1">>

\* C16: the report has one <testcase> per outcome, in outcome order; it has
\* a <failure> exactly when the outcome has ok = FALSE, with the message
\* "Expected <expectedStatus or 2xx>, got <status or error>" and the error
\* message, or "Request failed" when there is none, as its text; there are
\* as many <failure> elements as the failures attribute says.
C16_JUnitTestCases ==
    gjunit # NULL =>
        /\ Len(gjunit.testcases) = Len(gresults)
        /\ \A i \in 1..Len(gresults) :
            LET tc == gjunit.testcases[i]
                r == gresults[i]
            IN /\ tc.timeMs = r.timeMs
               /\ Len(tc.failure) = (IF r.ok THEN 0 ELSE 1)
               /\ ~r.ok =>
                    /\ tc.failure[1].message =
                          ExpectedPrefix
                          \o (IF r.expectedStatus.t = "number"
                              THEN NatChars(r.expectedStatus.v) ELSE Any2xx)
                          \o GotInfix
                          \o (IF r.status.t = "number"
                              THEN NatChars(r.status.v) ELSE ErrorWord)
                    /\ tc.failure[1].body =
                          (IF r.error = NULL \/ r.error = Str(<<>>)
                           THEN RequestFailed ELSE r.error.v)
        /\ gjunit.failures =
              NatChars(Cardinality({i \in 1..Len(gjunit.testcases) :
                                        gjunit.testcases[i].failure # <<>>}))

C16_Witness ==
    /\ gjunit # NULL
    /\ Len(gjunit.testcases) = 2
    /\ gjunit.testcases[1].failure = <<>>
    /\ gjunit.testcases[2].failure # <<>>
    /\ gjunit.testcases[2].failure[1].message =
          ExpectedPrefix \o <<"0">> \o GotInfix \o ErrorWord
    /\ gjunit.testcases[2].failure[1].body = <<"a", "<", "b">>

XmlEntities == {AmpEntity, LtEntity, GtEntity, QuotEntity, AposEntity}

\* No reserved XML character is left in the text: there is no < > " or ',
\* and every & starts one of the five entities.
IsEscaped(text) ==
    \A i \in 1..Len(text) :
        /\ text[i] \notin {"<", ">", "\"", "'"}
        /\ text[i] = "&" =>
              \E e \in XmlEntities :
                  /\ i + Len(e) - 1 <= Len(text)
                  /\ SubSeq(text, i, i + Len(e) - 1) = e

\* C17: the name attribute, the message attribute of <failure> and the text
\* of <failure> have the five reserved XML characters escaped.
C17_JUnitTextEscaped ==
    gjunit # NULL =>
        \A i \in 1..Len(gjunit.testcases) :
            LET tc == gjunit.testcases[i] IN
            /\ IsEscaped(tc.name)
            /\ \A k \in 1..Len(tc.failure) :
                  /\ IsEscaped(tc.failure[k].message)
                  /\ IsEscaped(tc.failure[k].body)

----------------------------------------------------------------------------
(* Properties of the Allure archive and of the HTML preview *)

ResultFiles(files) ==
    {i \in 1..Len(files) : Len(files[i].name) = 2 /\ files[i].name[2] = "-result.json"}

\* C18: the archive holds, in the directory allure-results, one
\* executor.json and one <uuid>-result.json per outcome and nothing else;
\* the uuid field of a result file is the uuid of its name, and the status
\* of the file of an outcome is "passed" when the outcome is ok and "failed"
\* otherwise.
C18_AllureArchiveFiles ==
    gzip # NULL =>
        LET files == gzip.files IN
        /\ \A i \in 1..Len(files) : files[i].dir = "allure-results"
        /\ \A i, j \in 1..Len(files) : files[i].name = files[j].name => i = j
        /\ Cardinality({i \in 1..Len(files) : files[i].name = <<"executor.json">>}) = 1
        /\ Cardinality(ResultFiles(files)) = Len(gresults)
        /\ Len(files) = 1 + Len(gresults)
        /\ \A i \in ResultFiles(files) : files[i].data.uuid = files[i].name[1]
        /\ \A k \in 1..Len(gresults) :
              /\ (k + 1) \in ResultFiles(files)
              /\ files[k + 1].data.time = gresults[k].timeMs
              /\ files[k + 1].data.status = (IF gresults[k].ok THEN "passed" ELSE "failed")

C18_Witness ==
    /\ gzip # NULL
    /\ Len(gresults) = 2
    /\ gresults[1].caseId = gresults[2].caseId
    /\ Len(gzip.files) = 3
    /\ gzip.files[2].data.status = "passed"
    /\ gzip.files[3].data.status = "failed"
    /\ gzip.files[2].name # gzip.files[3].name

\* C19: two calls of generateAllureHtml with the same test cases, outcomes
\* and meta, where meta supplies executedAt, return the same document,
\* whatever the clock shows at each call.
C19_HtmlIsAFunctionOfItsArguments ==
    (Len(ghtml) = 2 /\ Truthy(gmeta.executedAt)) => ghtml[1] = ghtml[2]

C19_Witness ==
    /\ Len(ghtml) = 2
    /\ Truthy(gmeta.executedAt)
    /\ now = MaxTicks * TickMs
    /\ Len(gresults) = 2
    /\ Len(gcases) = 2
    /\ ghtml[1] = ghtml[2]
    /\ ghtml[2].generated = <<"L">> \o NatChars(TickMs)

----------------------------------------------------------------------------
(* Report generation in the batch run *)

\* A report generator of the batch has been called.
ReportsStarted ==
    reports.html # NULL \/ reports.junit # NULL \/ reports.archive # "none"

\* C20: no report is generated while a test case of the batch is pending or
\* in flight: once a generator has been called no HTTP call is in flight,
\* every test case has its outcome, and the HTML preview, the JUnit XML and
\* the Allure archive were each given the batch and its complete list of
\* outcomes.
C20_ReportsAfterAllOutcomes ==
    /\ phase \in {"idle", "loop"} => ~ReportsStarted
    /\ ReportsStarted =>
        /\ pending = {}
        /\ Len(results) = Len(batch)
        /\ \A i \in 1..Len(batch) :
              \/ i \in threwLog
              \/ <<"end", i>> \in Events(httpLog)
        /\ \A k \in 1..Len(httpLog) : httpLog[k][1] = "start" =>
              <<"end", httpLog[k][2]>> \in Events(httpLog)
        /\ reports.html.results = results /\ reports.html.testCases = batch
        /\ reports.junit.results = results /\ reports.junit.testCases = batch
        /\ reports.archiveOf.results = results /\ reports.archiveOf.testCases = batch

C20_Witness ==
    /\ phase = "done"
    /\ Len(batch) = 2
    /\ threwLog = {}
    /\ reports.archive = "downloaded"
    /\ Len(reports.archiveOf.results) = 2
    /\ Len(reports.html.results) = 2
    /\ ~reports.junit.results[1].ok

\* C21: when the build of the Allure archive fails, the HTML preview stored
\* for "Open last report" and the JUnit XML already downloaded stay as they
\* are, the failure becomes a notice unless a notice is already shown, and
\* the run ends with isRunning = FALSE.
C21_ArchiveFailureIsolated ==
    [][(phase = "archive" /\ reports'.archive = "failed") =>
          /\ allurePreview # NULL
          /\ allurePreview' = allurePreview
          /\ reports.junit # NULL
          /\ reports'.junit = reports.junit
          /\ reports'.html = reports.html
          /\ lastRunSummary' = lastRunSummary
          /\ testCases' = testCases
          /\ previewNotice' = (IF previewNotice = NULL THEN ArchiveFailedNotice
                               ELSE previewNotice)
          /\ isRunning' = FALSE
          /\ phase' = "done"]_vars

C21_Witness ==
    /\ phase = "done"
    /\ reports.archive = "failed"
    /\ previewNotice = PopupBlockedNotice
    /\ allurePreview # NULL
    /\ ~isRunning

----------------------------------------------------------------------------
(* RequestForm: validateRequest, handleSend up to its HTTP call, handleSave. *)
(* Of the form, the four fields validateRequest reads are modelled; the     *)
(* texts typed are short, and max response times with a fraction are left   *)
(* out, Number being modelled on integers.                                   *)

\* /^https?:\/\//i as the sets of characters it takes at each place.
HttpPattern == <<{"h", "H"}, {"t", "T"}, {"t", "T"}, {"p", "P"}, {":"}, {"/"}, {"/"}>>
HttpsPattern ==
    <<{"h", "H"}, {"t", "T"}, {"t", "T"}, {"p", "P"}, {"s", "S"}, {":"}, {"/"}, {"/"}>>

MatchesAtStart(s, pattern) ==
    /\ Len(s) >= Len(pattern)
    /\ \A i \in 1..Len(pattern) : s[i] \in pattern[i]

\* /^https?:\/\//i.test(s)
HttpSchemeTest(s) == MatchesAtStart(s, HttpPattern) \/ MatchesAtStart(s, HttpsPattern)

\* /^\d*$/.test(value)
DigitsTest(value) == \A i \in 1..Len(value) : IsDigit(value[i])

\* /^\d*\.?\d*$/.test(value)
DecimalTest(value) ==
    /\ \A i \in 1..Len(value) : IsDigit(value[i]) \/ value[i] = "."
    /\ Cardinality({i \in 1..Len(value) : value[i] = "."}) <= 1

\* validateRequest, had it asked of the url only that it is not empty.
validateRequestWithoutScheme(f, requireCaseName) ==
    LET trimmedUrl == Trim(f.url)
        numericMax == ToNumber(Str(f.maxResponseTime))
    IN (IF trimmedUrl = <<>> THEN {"url"} ELSE {})
       \cup (IF f.expectedStatus = <<>> \/ ToNumber(Str(f.expectedStatus)) = NAN
              THEN {"expectedStatus"} ELSE {})
       \cup (IF f.maxResponseTime # <<>> /\ (numericMax = NAN \/ numericMax.v <= 0)
              THEN {"maxResponseTime"} ELSE {})
       \cup (IF requireCaseName /\ Trim(f.caseName) = <<>> THEN {"caseName"} ELSE {})

\* validateRequest({ requireCaseName }): the keys of nextErrors.
validateRequest(f, requireCaseName) ==
    LET trimmedUrl == Trim(f.url)
        numericMax == ToNumber(Str(f.maxResponseTime))
    IN (IF trimmedUrl = <<>> \/ ~HttpSchemeTest(trimmedUrl) THEN {"url"} ELSE {})
       \cup (IF f.expectedStatus = <<>> \/ ToNumber(Str(f.expectedStatus)) = NAN
              THEN {"expectedStatus"} ELSE {})
       \cup (IF f.maxResponseTime # <<>> /\ (numericMax = NAN \/ numericMax.v <= 0)
              THEN {"maxResponseTime"} ELSE {})
       \cup (IF requireCaseName /\ Trim(f.caseName) = <<>> THEN {"caseName"} ELSE {})

\* The timeout of the request of handleSend, in milliseconds.
SendTimeout(f) ==
    LET timeoutSeconds == IF f.maxResponseTime # <<>> THEN ToNumber(Str(f.maxResponseTime))
                          ELSE UNDEF
    IN IF Truthy(timeoutSeconds) /\ timeoutSeconds.v > 0 THEN Num(timeoutSeconds.v * 1000)
       ELSE UNDEF

\* The testCase of handleSave, as far as the four fields make it.
SavedCase(f, caseId) ==
    LET expectedNumber == ToNumber(Str(f.expectedStatus))
        timeoutSeconds == IF f.maxResponseTime # <<>> THEN ToNumber(Str(f.maxResponseTime))
                          ELSE NULL
    IN [id |-> caseId,
        caseName |-> Trim(f.caseName),
        url |-> Trim(f.url),
        expectedStatus |-> IF expectedNumber = NAN THEN NULL ELSE expectedNumber,
        maxResponseTime |-> IF Truthy(timeoutSeconds) /\ timeoutSeconds.v > 0
                            THEN timeoutSeconds ELSE NULL]

MaxSends == 1
MaxSaves == 1

\* Texts typed into the fields.
UrlInputs ==
    {<<>>, <<"sp">>, <<"sp", "h", "t", "t", "p", ":", "/", "/", "a">>,
     <<"H", "T", "T", "P", "S", ":", "/", "/", "a">>, <<"h", "t", "t", "p", ":", "/", "a">>,
     <<"f", "t", "p", ":", "/", "/", "a">>}
StatusInputs == {<<>>, <<"2", "0", "0">>, <<"4", "0", "4">>, <<"2", "x">>, <<"sp">>}
TimeInputs == {<<>>, <<"5">>, <<"0">>, <<".">>, <<"-", "1">>}
NameInputs == {<<>>, <<"sp">>, <<"sp", "n">>}

InitForm ==
    /\ StoreIdle
    /\ AppIdle
    /\ RunnerIdle
    /\ GenIdle
    /\ hasFormData = TRUE
    /\ now = 0
    /\ FormIdle

\* onChange of the URL field: setUrl(value); clearError("url")
SetUrl ==
    /\ \E value \in UrlInputs : form' = [form EXCEPT !.url = value]
    /\ formErrors' = formErrors \ {"url"}
    /\ UNCHANGED <<hasFormData, now, appVars, runVars, genVars, storeVars, sent, savedCases>>

\* onChange of the case name field: setCaseName(value); clearError("caseName")
SetCaseName ==
    /\ \E value \in NameInputs : form' = [form EXCEPT !.caseName = value]
    /\ formErrors' = formErrors \ {"caseName"}
    /\ UNCHANGED <<hasFormData, now, appVars, runVars, genVars, storeVars, sent, savedCases>>

\* handleExpectedStatusInput(value)
HandleExpectedStatusInput ==
    /\ \E value \in StatusInputs :
        IF DigitsTest(value)
        THEN /\ form' = [form EXCEPT !.expectedStatus = value]
             /\ formErrors' = formErrors \ {"expectedStatus"}
        ELSE UNCHANGED <<form, formErrors>>
    /\ UNCHANGED <<hasFormData, now, appVars, runVars, genVars, storeVars, sent, savedCases>>

\* handleMaxResponseTimeInput(value)
HandleMaxResponseTimeInput ==
    /\ \E value \in TimeInputs :
        IF DecimalTest(value)
        THEN /\ form' = [form EXCEPT !.maxResponseTime = value]
             /\ formErrors' = formErrors \ {"maxResponseTime"}
        ELSE UNCHANGED <<form, formErrors>>
    /\ UNCHANGED <<hasFormData, now, appVars, runVars, genVars, storeVars, sent, savedCases>>

\* handleSend up to the call of axios.
HandleSend ==
    /\ Len(sent) < MaxSends
    /\ \E nextErrors \in {validateRequest(form, FALSE)} :
        /\ formErrors' = nextErrors
        /\ sent' = IF nextErrors # {} THEN sent
                   ELSE Append(sent, [url |-> Trim(form.url), timeout |-> SendTimeout(form)])
    /\ UNCHANGED <<hasFormData, now, appVars, runVars, genVars, storeVars, form, savedCases>>

\* handleSave
HandleSave ==
    /\ Len(savedCases) < MaxSaves
    /\ UuidPool \ issued # {}
    /\ \E nextErrors \in {validateRequest(form, TRUE)} :
        /\ formErrors' = nextErrors
        /\ IF nextErrors # {} THEN UNCHANGED <<form, savedCases, issued>>
           ELSE \E caseId \in {CHOOSE u \in UuidPool \ issued : TRUE} :
                /\ issued' = issued \cup {caseId}
                /\ savedCases' = Append(savedCases, SavedCase(form, caseId))
                /\ form' = [form EXCEPT !.caseName = <<>>,
                                         !.expectedStatus = DefaultForm.expectedStatus,
                                         !.maxResponseTime = DefaultForm.maxResponseTime]
    /\ UNCHANGED <<hasFormData, now, appVars, runVars, genVars, sent, localStorage, persistDue,
                   storedByOthers, storageQueue, storageEvents, ignoredClicks, addCalls>>

FormNext ==
    \/ SetUrl
    \/ SetCaseName
    \/ HandleExpectedStatusInput
    \/ HandleMaxResponseTimeInput
    \/ HandleSend
    \/ HandleSave

FormSpec == InitForm /\ [][FormNext]_vars

----------------------------------------------------------------------------
(* Properties of the collection and the store *)

Ids(list) == {list[k].id : k \in 1..Len(list)}

\* The step of runAllTestCases that leaves the loop and updates lastRun.
LoopEnds == phase # "archive" /\ phase' = "archive"

\* C22: when the loop of a batch run is over, every test case of the batch
\* that is still in the collection has as lastRun the ok, status,
\* statusText, timeMs, executedAt, expectedStatus, warning and error of the
\* Outcome this run produced for it.
C22_LastRunIsOutcomeOfCase ==
    [][LoopEnds =>
        \A k \in 1..Len(testCases') : \A i \in 1..Len(batch') :
            testCases'[k].id = batch'[i].id =>
                testCases'[k].lastRun =
                    [ok |-> results'[i].ok, status |-> results'[i].status,
                     statusText |-> results'[i].statusText, timeMs |-> results'[i].timeMs,
                     executedAt |-> results'[i].executedAt,
                     expectedStatus |-> results'[i].expectedStatus,
                     warning |-> results'[i].warning, error |-> results'[i].error]]_vars

C22_Witness ==
    /\ phase = "archive"
    /\ Len(batch) = 2
    /\ \E i \in 1..Len(batch) : batch[i].id \notin Ids(testCases)
    /\ \E k \in 1..Len(testCases) :
        /\ testCases[k].id \in Ids(batch)
        /\ testCases[k].lastRun # UNDEF
        /\ testCases[k].lastRun.ok

\* C23: the item "testCases" is read when the App starts, every change of
\* the collection (a test case added, lastRun updated, a resync) makes the
\* write of the item due, and once the write has run, and until another tab
\* writes the item, the item is the JSON text of the collection.
C23_StoreFollowsCollection ==
    /\ [](~persistDue /\ ~storedByOthers => localStorage = stringify(testCases))
    /\ [][testCases' # testCases => persistDue']_vars
    /\ [][persistDue /\ ~persistDue' => localStorage' = stringify(testCases)]_vars

C23_Witness ==
    /\ ~persistDue
    /\ ~storedByOthers
    /\ storageEvents.count > 0
    /\ Len(testCases) = 2
    /\ \E k \in 1..Len(testCases) : testCases[k].lastRun # UNDEF
    /\ localStorage.elems[2].lastRun # Absent

\* C25: at most one batch run is in progress: a run has at most one HTTP
\* call in flight, and while isRunning holds or the collection is empty no
\* step begins a run, opens a report window or takes a new snapshot; a call
\* of runAllTestCases made then leaves the state of the App, the clock and
\* the store as they are.
C25_OneRunAtATime ==
    /\ [](/\ isRunning <=> phase \in {"loop", "archive"}
          /\ Cardinality(pending) <= 1
          /\ \A i \in 1..Len(httpLog) :
                httpLog[i][1] = "start" => \A j \in 1..Len(httpLog) :
                    httpLog[j] = httpLog[i] => i = j)
    /\ [][isRunning \/ testCases = <<>> =>
            /\ batch' = batch
            /\ loadingWindow' = loadingWindow
            /\ ~isRunning => (~isRunning' /\ httpLog' = httpLog /\ reports' = reports)]_vars
    /\ [][ignoredClicks' # ignoredClicks =>
            /\ isRunning \/ testCases = <<>>
            /\ UNCHANGED <<now, appVars, localStorage, persistDue>>]_vars

C25_Witness ==
    /\ ignoredClicks > 0
    /\ isRunning
    /\ pending # {}
    /\ Len(httpLog) = 1
    /\ issued = {}
    /\ storageQueue = <<>>
    /\ storageEvents = [count |-> 0, last |-> NULL]

\* C27: a batch run works on the collection as it was when the run began:
\* its HTTP calls, its Outcomes and its reports are those of the snapshot,
\* so a test case that came into the collection while the run was in flight
\* is neither executed nor reported; and the lastRun update goes through the
\* collection as it is when the loop ends, where such a test case keeps its
\* place and all its fields.
C27_SnapshotRunCurrentUpdate ==
    /\ [](/\ \A call \in pending :
                /\ call.index \in 1..Len(batch)
                /\ call.prep = Prepare(batch[call.index])
          /\ Len(results) <= Len(batch)
          /\ \A i \in 1..Len(results) : results[i].caseId = batch[i].id
          /\ phase \in {"archive", "done"} =>
                /\ reports.html.testCases = batch
                /\ reports.junit.testCases = batch
                /\ reports.archiveOf.testCases = batch
                /\ reports.html.results = results
                /\ lastRunSummary.results = results)
    /\ [][LoopEnds =>
            /\ Len(testCases') = Len(testCases)
            /\ \A k \in 1..Len(testCases) :
                testCases[k].id \notin Ids(batch') => testCases'[k] = testCases[k]]_vars

\* The store holds a test case the batch has not, and no lastRun: the test
\* case was added and stored while the loop was running.
C27_Witness ==
    /\ phase = "archive"
    /\ ~storedByOthers
    /\ localStorage # NULL
    /\ \E j \in 1..Len(localStorage.elems) :
        /\ localStorage.elems[j].id \notin Ids(batch)
        /\ localStorage.elems[j].id \in Ids(testCases)
    /\ \A j \in 1..Len(localStorage.elems) : localStorage.elems[j].lastRun = Absent
    /\ \E k \in 1..Len(testCases) : testCases[k].lastRun # UNDEF
    /\ \E k \in 1..Len(testCases) :
        testCases[k].id \notin Ids(batch) /\ testCases[k].lastRun = UNDEF

\* C28: the lastRun update changes the lastRun field only: the collection
\* keeps its length and its order, every test case keeps all its other
\* fields, and a test case whose id is the caseId of no Outcome is left as
\* it is.
C28_OnlyLastRunChanges ==
    [][LoopEnds =>
        /\ Len(testCases') = Len(testCases)
        /\ \A k \in 1..Len(testCases) :
            /\ [testCases'[k] EXCEPT !.lastRun = UNDEF] = [testCases[k] EXCEPT !.lastRun = UNDEF]
            /\ (\A i \in 1..Len(results') : results'[i].caseId # testCases[k].id)
                    => testCases'[k] = testCases[k]]_vars

\* The collection was resynced while the loop was running: the test case
\* the event brought in without id has an id no Outcome has and no lastRun,
\* the test case of the batch has its lastRun (it would have none, had the
\* event come after the update).
C28_Witness ==
    /\ phase = "archive"
    /\ storageEvents.count = 1
    /\ addCalls = 0
    /\ Len(testCases) = 2
    /\ testCases[1].id \notin Ids(batch)
    /\ testCases[1].lastRun = UNDEF
    /\ testCases[2].id \in Ids(batch)
    /\ testCases[2].lastRun # UNDEF

\* C29: every test case of the collection has a non-empty id, whatever was
\* loaded at startup, added, brought in by a storage event or run.
C29_EveryCaseHasId == \A k \in 1..Len(testCases) : testCases[k].id # ""

\* A test case stored without id got one when a storage event brought it
\* in, after another id had been given at startup or on add, and was run.
C29_Witness ==
    /\ storageEvents.count = 1
    /\ storageEvents.last.newValue # NULL
    /\ \E j \in 1..Len(storageEvents.last.newValue.elems) :
            storageEvents.last.newValue.elems[j].id = ""
    /\ Cardinality(issued) = 2
    /\ Len(testCases) = 2
    /\ testCases[1].id \in issued
    /\ testCases[1].lastRun # UNDEF
    /\ phase = "done"

\* C30: a storage event changes the collection only if its key is
\* "testCases", its new value parses as a JSON array and the array, ids
\* filled in, serializes differently from the collection; then the
\* collection becomes that array.  Any other event leaves the collection as
\* it is and makes no write of the store due.
C30_StorageEventAccepted ==
    [][storageEvents'.count # storageEvents.count =>
        LET event == Head(storageQueue)
            next == parse(OrEmptyArray(event.newValue))
            incoming == FillIds(next.elems, issued)
            accepted == /\ event.key = "testCases"
                        /\ ~next.threw
                        /\ next.isArray
                        /\ stringify(incoming) # stringify(testCases)
        IN /\ accepted => (testCases' = incoming /\ persistDue')
           /\ ~accepted => (testCases' = testCases /\ persistDue' = persistDue)
           /\ localStorage' = localStorage]_vars

\* The item was removed by another tab while the collection was empty and
\* stored: the event was handled, and no write is due.
C30_Witness ==
    /\ storageEvents.count = 1
    /\ storageEvents.last.key = "testCases"
    /\ storageEvents.last.newValue = NULL
    /\ testCases = <<>>
    /\ storedByOthers
    /\ ~persistDue

----------------------------------------------------------------------------
(* Properties of the form *)

StartsWith(s, prefix) == Len(s) >= Len(prefix) /\ SubSeq(s, 1, Len(prefix)) = prefix

\* The text begins with http:// or https://, written so.
BeginsWithHttp(s) ==
    \/ StartsWith(s, <<"h", "t", "t", "p", ":", "/", "/">>)
    \/ StartsWith(s, <<"h", "t", "t", "p", "s", ":", "/", "/">>)

\* The text with the capital letters of a scheme made small.
SchemeFolded(s) ==
    [i \in 1..Len(s) |->
        CASE s[i] = "H" -> "h" [] s[i] = "T" -> "t" [] s[i] = "P" -> "p"
          [] s[i] = "S" -> "s" [] OTHER -> s[i]]

IsDecimal(text) == text # <<>> /\ \A i \in 1..Len(text) : IsDigit(text[i])

\* The fields fail validation: the url, white space around it aside, is
\* empty or has no http(s) scheme; the expected status is missing or no
\* number; the max response time is there and not a number above 0; or,
\* when saving, the case name is blank.
FieldsInvalid(f, saving, urlOk) ==
    \/ ~urlOk
    \/ ~IsDecimal(f.expectedStatus)
    \/ f.maxResponseTime # <<>> /\ ~(IsDecimal(f.maxResponseTime)
                                      /\ DecimalValue(f.maxResponseTime) > 0)
    \/ saving /\ IsBlank(f.caseName)

----------------------------------------------------------------------------
(* Termination of the batch run *)

\* C26: a batch run that has set isRunning sets it back to FALSE: when the
\* archive is built, when its build fails, and when generateAllureHtml or
\* generateJUnitReport throws; every HTTP call is taken to complete.
C26_RunEnds == isRunning ~> ~isRunning

\* A run with an HTTP call has ended on an exception of a generator.
C26_Witness ==
    /\ phase = "done"
    /\ ~isRunning
    /\ reports.archive = "none"
    /\ reports.html # NULL
    /\ Len(httpLog) = 2 * Len(batch)
    /\ Len(batch) = 2

=============================================================================
